---- MODULE Spec2Model ----
(***************************************************************************)
(* A model of serde-describe: the schema registry (Description, filled by  *)
(* Describe::add_schema) and the schema-guided decoder (SchemaDeserializer *)
(* and its visitors and cursors), as state machines.                       *)
(*                                                                         *)
(* The specifications share the variables:                                 *)
(*   SpecReg   the registry: describe(), add_schema, Description::add      *)
(*   Spec      one decode driven by a target and an underlying decoder     *)
(*   SpecShared  two decodes that share a schema and a configuration       *)
(*   SpecWrap  the registry, describe() called on passthrough wrappers     *)
(***************************************************************************)
EXTENDS Integers, Sequences, FiniteSets, TLC

VARIABLES
    \* ---- registry (src/src/describe.rs, src/src/main.rs) ----
    graph,      \* the describable types of the run: id -> [kind, deps]
    items,      \* Description.items: SchemaName -> Schema
    root,       \* Description.schema, <<>> before describe() created one
    rstack,     \* the active add_schema calls, innermost last
    rstate,     \* "idle" | "walking" | "done" | "overflow"
    lastAdd,    \* what the last Description::add call did
    apiAdds,    \* number of direct Description::add calls made so far
    \* ---- decoder (src/src/deserializer.rs) ----
    opts,       \* DeserializerOptions
    input,      \* what the decode was started with: [schema, data]
    stack,      \* the live deserializers and cursors, innermost last
    result,     \* the outcome of the decode
    last,       \* the last request made of the engine and what it did
    ulog,       \* the requests the last step issued to the underlying decoder
    ureqs,      \* number of requests issued to the underlying decoder so far
    out,        \* what was handed to the target, in order
    decoder,    \* the SchemaDecoder built from the Description, <<>> if none
    copy,       \* the Description read back from its serialized form, <<>> if none
    runs        \* the decodes that share one schema and one configuration

regvars == <<graph, items, root, rstack, rstate, lastAdd, apiAdds>>
decvars == <<opts, input, stack, result, last, ulog, ureqs, out, decoder, copy, runs>>
vars == <<graph, items, root, rstack, rstate, lastAdd, apiAdds,
          opts, input, stack, result, last, ulog, ureqs, out, decoder, copy, runs>>

(***************************************************************************)
(* Bounds of the model.                                                    *)
(***************************************************************************)
\* Depth of add_schema recursion at which the call stack is exhausted.  It is
\* above the number of describable types, so a walk that reaches it holds the
\* same type twice and, being deterministic, recurses forever.
MaxDepth == 6
\* Direct calls of Description::add by a user of the library.
MaxApiAdds == 3

Last(s) == s[Len(s)]
Front(s) == SubSeq(s, 1, Len(s) - 1)

(***************************************************************************)
(* REGISTRY                                                                *)
(***************************************************************************)
\* The describable types of a run.  "P" stands for a primitive (the default
\* add_schema, which does nothing), "V" for a container such as Vec<T> or
\* BTreeMap<K, V> or a passthrough wrapper (add_schema only recurses), "S" and
\* "T" for user types registered the way MyStruct<T> is.
TypeIds == {"P", "V", "S", "T"}
PrimIds == {"P"}
ContainerIds == {"V"}
NamedIds == {"S", "T"}

\* Passthrough wrappers, each over the type it contains: a reference, Box,
\* Rc, Arc, Cow, Mutex or RwLock of P, V, S, T.
WrapperIds == {"WP", "WV", "WS", "WT"}
Content == [WP |-> "P", WV |-> "V", WS |-> "S", WT |-> "T"]

DepLists(S) == {<<>>} \cup {<<a>> : a \in S} \cup {<<a, b>> : a \in S, b \in S}

\* A container holds one or two types; Rust types are finite, so a container
\* does not contain itself other than through a user type.
TypeGraphs ==
    { [t \in TypeIds \cup WrapperIds |-> IF t \in WrapperIds THEN <<Content[t]>> ELSE g[t]] :
        g \in { h \in [TypeIds -> UNION {DepLists(TypeIds)}] :
                  /\ h["P"] = <<>>
                  /\ Len(h["V"]) >= 1
                  /\ \A i \in 1..Len(h["V"]) : h["V"][i] \notin ContainerIds } }

SchemaTokens == {"s1", "s2"}

\* SchemaName of a registered type, and the schema its constructor builds.
\* A wrapper has the name and the schema of the type it contains.
schema_name_own(t) == t
schema_name(t) == IF t \in WrapperIds THEN Content[t] ELSE t
SchemaOf(t) == IF t \in WrapperIds THEN Content[t] ELSE t

NoAdd == [name |-> "", schema |-> "", ran |-> FALSE, before |-> <<>>]

\* Description::new
DescriptionNew == <<>>

\* Whether Description::add runs the schema constructor.
AddRan(m, name) == name \notin DOMAIN m

\* Description::add: self.items.entry(name).or_insert_with(|| schema().into())
AddOverwrites(m, name, schema) ==
    [n \in DOMAIN m \cup {name} |-> IF n = name THEN schema ELSE m[n]]
Add(m, name, schema) ==
    IF name \in DOMAIN m
    THEN m
    ELSE [n \in DOMAIN m \cup {name} |-> IF n = name THEN schema ELSE m[n]]

AddRecord(m, name, schema) ==
    [name |-> name, schema |-> schema, ran |-> AddRan(m, name), before |-> m]

\* Describe::describe: Description::new(Self::schema()), then add_schema.
Describe(t) ==
    /\ rstate = "idle"
    /\ items' = DescriptionNew
    /\ root' = <<t>>
    /\ rstack' = <<[ty |-> t, pc |-> 0]>>
    /\ rstate' = "walking"
    /\ UNCHANGED <<graph, lastAdd, apiAdds>>

AddSchemaEnter_default ==
    /\ rstate = "walking"
    /\ Last(rstack).pc = 0
    /\ rstack' = [rstack EXCEPT ![Len(rstack)].pc = 1]
    /\ UNCHANGED <<graph, items, lastAdd, root, rstate, apiAdds>>

\* add_schema begins: a user type calls map.add(Self::schema_name(), ...);
\* primitives, containers and wrappers add nothing.
AddSchemaEnter ==
    /\ rstate = "walking"
    /\ Last(rstack).pc = 0
    /\ LET t == Last(rstack).ty
       IN  /\ IF t \in NamedIds
              THEN /\ items' = Add(items, schema_name(t), SchemaOf(t))
                   /\ lastAdd' = AddRecord(items, schema_name(t), SchemaOf(t))
              ELSE UNCHANGED <<items, lastAdd>>
           /\ rstack' = [rstack EXCEPT ![Len(rstack)].pc = 1]
    /\ UNCHANGED <<graph, root, rstate, apiAdds>>

\* add_schema calls the add_schema of the next type it contains; the call is
\* made whatever Description::add did, for add returns nothing.
AddSchemaCall ==
    /\ rstate = "walking"
    /\ LET f == Last(rstack)
           deps == graph[f.ty]
       IN  /\ f.pc >= 1
           /\ f.pc <= Len(deps)
           /\ Len(rstack) < MaxDepth
           /\ rstack' = Append([rstack EXCEPT ![Len(rstack)].pc = f.pc + 1],
                               [ty |-> deps[f.pc], pc |-> 0])
    /\ UNCHANGED <<graph, items, root, rstate, lastAdd, apiAdds>>

\* The recursion has exhausted the call stack.
AddSchemaOverflow ==
    /\ rstate = "walking"
    /\ LET f == Last(rstack)
       IN  /\ f.pc >= 1
           /\ f.pc <= Len(graph[f.ty])
           /\ Len(rstack) >= MaxDepth
    /\ rstate' = "overflow"
    /\ UNCHANGED <<graph, items, root, rstack, lastAdd, apiAdds>>

\* add_schema returns; describe() returns the map when the outermost does.
AddSchemaReturn ==
    /\ rstate = "walking"
    /\ LET f == Last(rstack)
       IN  /\ f.pc > Len(graph[f.ty])
           /\ rstack' = Front(rstack)
           /\ rstate' = IF Len(rstack) = 1 THEN "done" ELSE "walking"
    /\ UNCHANGED <<graph, items, root, lastAdd, apiAdds>>

\* A direct call of the public Description::add on a finished Description.
ApiAdd(name, schema) ==
    /\ rstate = "done"
    /\ apiAdds < MaxApiAdds
    /\ items' = Add(items, name, schema)
    /\ lastAdd' = AddRecord(items, name, schema)
    /\ apiAdds' = apiAdds + 1
    /\ UNCHANGED <<graph, root, rstack, rstate>>

\* The SchemaItem describe() starts from: Self::schema() is the name of a user
\* type and the inline schema of any other type.
RootItem(t) ==
    IF schema_name(t) \in NamedIds
    THEN [item |-> "Named", name |-> schema_name(t)]
    ELSE [item |-> "Schema", schema |-> SchemaOf(t)]

\* The Description the registry holds.
TheDescription == [schema |-> RootItem(root[1]), items |-> items]

\* SchemaDecode::new: todo!()
SchemaDecode_new(schema) == [st |-> "panic"]

\* SchemaDecodeItem::new
SchemaDecodeItem_new(item) ==
    IF item.item = "Schema"
    THEN LET decode == SchemaDecode_new(item.schema)
         IN  IF decode.st = "panic"
             THEN decode
             ELSE [st |-> "ok", item |-> "Decode", decode |-> decode.decode]
    ELSE [st |-> "ok", item |-> "Named", name |-> item.name]

\* SchemaDecoder::new
SchemaDecoder_new(descr) ==
    LET schema == SchemaDecodeItem_new(descr.schema)
        table == [n \in DOMAIN descr.items |-> SchemaDecode_new(descr.items[n])]
    IN  IF schema.st = "panic" \/ \E n \in DOMAIN table : table[n].st = "panic"
        THEN [st |-> "panic", of |-> descr]
        ELSE [st |-> "ok", of |-> descr, schema |-> schema,
              items |-> [n \in DOMAIN table |-> table[n].decode]]

\* SchemaDecodeItem::lookup: items.get(name).unwrap()
SchemaDecodeItem_lookup(item, table) ==
    IF item.item = "Decode"
    THEN [st |-> "ok", decode |-> item.decode]
    ELSE IF item.name \in DOMAIN table
         THEN [st |-> "ok", decode |-> table[item.name]]
         ELSE [st |-> "panic"]

\* SchemaDeserializer::new: the schema the decode starts at.
SchemaDeserializer_new(dec) == SchemaDecodeItem_lookup(dec.schema, dec.items)

\* SchemaDecoder::new(&description) on a completed Description.
SchemaDecoderNew ==
    /\ rstate = "done"
    /\ decoder = <<>>
    /\ decoder' = <<SchemaDecoder_new(TheDescription)>>
    /\ UNCHANGED <<regvars, opts, input, stack, result, last, ulog, ureqs, out, copy, runs>>

\* SchemaName(String, Vec<SchemaName>)
SchemaName(base, args) == [base |-> base, args |-> args]

\* schema_name() in full: a plain name, as MyStruct2, or a name with the
\* names of its type arguments, as MyStruct<T>.
FullName(t) ==
    IF t = "T"
    THEN SchemaName("T", <<SchemaName("S", <<>>), SchemaName("P", <<>>)>>)
    ELSE SchemaName(t, <<>>)

\* Display for SchemaName, as the pieces written.
RECURSIVE SchemaName_fmt(_), FmtArgs(_)
FmtArgs(args) ==
    IF args = <<>>
    THEN <<>>
    ELSE <<", ">> \o SchemaName_fmt(args[1]) \o FmtArgs(Tail(args))
SchemaName_fmt(name) ==
    <<name.base>> \o
        (IF name.args = <<>>
         THEN <<>>
         ELSE <<"<">> \o SchemaName_fmt(name.args[1]) \o FmtArgs(Tail(name.args)) \o <<">">>)

\* FromStr for SchemaName: todo!()
SchemaName_from_str(text) == [st |-> "panic"]

\* The user types an inline schema names: those a container holds.
InlineNames(t) == {graph[t][i] : i \in 1..Len(graph[t])} \cap NamedIds

\* Serialize for Description: names are written by Display; no items field
\* is written for an empty map.
Description_serialize(descr) ==
    [schema |-> IF descr.schema.item = "Named"
                THEN [item |-> "Named", name |-> SchemaName_fmt(FullName(descr.schema.name))]
                ELSE [item |-> "Schema", schema |-> descr.schema.schema,
                      names |-> {SchemaName_fmt(FullName(n)) :
                                    n \in InlineNames(descr.schema.schema)}],
     items |-> {[name |-> SchemaName_fmt(FullName(n)), schema |-> descr.items[n]] :
                   n \in DOMAIN descr.items}]

\* Deserialize for Description: names are parsed by FromStr.
Description_deserialize(wire) ==
    LET texts == {e.name : e \in wire.items}
                    \cup (IF wire.schema.item = "Named"
                          THEN {wire.schema.name}
                          ELSE wire.schema.names)
        parsed == [t \in texts |-> SchemaName_from_str(t)]
        id(t) == CHOOSE n \in TypeIds : FullName(n) = parsed[t].name
    IN  IF \E t \in texts : parsed[t].st = "panic"
        THEN [st |-> "panic"]
        ELSE [st |-> "ok",
              descr |-> [schema |-> IF wire.schema.item = "Named"
                                    THEN [item |-> "Named", name |-> id(wire.schema.name)]
                                    ELSE [item |-> "Schema", schema |-> wire.schema.schema],
                         items |-> [n \in {id(e.name) : e \in wire.items} |->
                                       (CHOOSE e \in wire.items : id(e.name) = n).schema]]]

\* A completed Description is serialized and read back.
RoundTrip ==
    /\ rstate = "done"
    /\ copy = <<>>
    /\ copy' = <<[of |-> TheDescription,
                  wire |-> Description_serialize(TheDescription),
                  back |-> Description_deserialize(Description_serialize(TheDescription))]>>
    /\ UNCHANGED <<regvars, opts, input, stack, result, last, ulog, ureqs, out, decoder, runs>>

DecIdle ==
    /\ opts = <<>>
    /\ input = <<>>
    /\ stack = <<>>
    /\ result = <<>>
    /\ last = <<>>
    /\ ulog = <<>>
    /\ ureqs = 0
    /\ out = <<>>
    /\ decoder = <<>>
    /\ copy = <<>>
    /\ runs = <<>>

RegInit ==
    /\ graph \in TypeGraphs
    /\ items = <<>>
    /\ root = <<>>
    /\ rstack = <<>>
    /\ rstate = "idle"
    /\ lastAdd = NoAdd
    /\ apiAdds = 0
    /\ DecIdle

RegNext ==
    \/ \E t \in TypeIds : Describe(t) /\ UNCHANGED decvars
    \/ AddSchemaEnter /\ UNCHANGED decvars
    \/ AddSchemaCall /\ UNCHANGED decvars
    \/ AddSchemaOverflow /\ UNCHANGED decvars
    \/ AddSchemaReturn /\ UNCHANGED decvars
    \/ /\ decoder = <<>>  \* a SchemaDecoder borrows the Description it was built from
       /\ copy = <<>>
       /\ \E n \in NamedIds, s \in SchemaTokens : ApiAdd(n, s) /\ UNCHANGED decvars
    \/ SchemaDecoderNew
    \/ RoundTrip

SpecReg == RegInit /\ [][RegNext]_vars

\* describe() of a passthrough wrapper.
WrapNext ==
    \/ \E w \in WrapperIds : Describe(w) /\ UNCHANGED decvars
    \/ AddSchemaEnter /\ UNCHANGED decvars
    \/ AddSchemaCall /\ UNCHANGED decvars
    \/ AddSchemaOverflow /\ UNCHANGED decvars
    \/ AddSchemaReturn /\ UNCHANGED decvars

SpecWrap == RegInit /\ [][WrapNext]_vars

(***************************************************************************)
(* SCHEMAS (src/src/schema.rs)                                             *)
(***************************************************************************)
SimpleKinds ==
    {"Unit", "Bool", "U8", "U16", "U32", "U64", "U128", "I8", "I16", "I32",
     "I64", "I128", "F32", "F64", "Char", "String", "Bytes"}

Simple(k) == [kind |-> "Simple", simple |-> k]
OptionSchema(value) == [kind |-> "Option", value |-> value]
SeqSchema(value) == [kind |-> "Seq", value |-> value]
MapSchema(key, value) == [kind |-> "Map", key |-> key, value |-> value]
TupleSchema(values) == [kind |-> "Tuple", values |-> values]
\* NamedFieldSchema::new; the default-value slot is None unless the Description
\* that was read carries one.
NamedFieldSchema(name, value) == [name |-> name, value |-> value, default |-> <<>>]
WithDefault(field, default) == [field EXCEPT !.default = <<default>>]
StructSchema(name, fields) == [kind |-> "Struct", name |-> name, fields |-> fields]
ExternallyTagged == [repr |-> "ExternallyTagged", tag |-> "", content |-> ""]
InternallyTagged(tag) == [repr |-> "InternallyTagged", tag |-> tag, content |-> ""]
AdjacentlyTagged(tag, content) ==
    [repr |-> "AdjacentlyTagged", tag |-> tag, content |-> content]
\* A variant as the decoder matches it: its shape, its name and, for a
\* Newtype variant, the schema of its payload.
VariantSchema(shape, name, value) == [shape |-> shape, name |-> name, value |-> value]
EnumSchema(name, variants, repr) ==
    [kind |-> "Enum", name |-> name, variants |-> variants, repr |-> repr]

IsSimple(P, k) == P.kind = "Simple" /\ P.simple = k

\* Expected, and Schema::expected, which the decoder calls kind().
ExpectedSimple(k) == [e |-> "Simple", s |-> k, name |-> "", n |-> -1]
ExpectedOption == [e |-> "Option", s |-> "", name |-> "", n |-> -1]
ExpectedTuple(n) == [e |-> "Tuple", s |-> "", name |-> "", n |-> n]
ExpectedSeq == [e |-> "Seq", s |-> "", name |-> "", n |-> -1]
ExpectedMap == [e |-> "Map", s |-> "", name |-> "", n |-> -1]
ExpectedStruct(name) == [e |-> "Struct", s |-> "", name |-> name, n |-> -1]
ExpectedEnum(name) == [e |-> "Enum", s |-> "", name |-> name, n |-> -1]
NoKind == [e |-> "", s |-> "", name |-> "", n |-> -1]

expected_unnamed(P) ==
    CASE P.kind = "Simple" -> ExpectedSimple(P.simple)
      [] P.kind = "Option" -> ExpectedOption
      [] P.kind = "Tuple" -> ExpectedTuple(0)
      [] P.kind = "Seq" -> ExpectedSeq
      [] P.kind = "Map" -> ExpectedMap
      [] P.kind = "Struct" -> ExpectedStruct("")
      [] P.kind = "Enum" -> ExpectedEnum("")
expected(P) ==
    CASE P.kind = "Simple" -> ExpectedSimple(P.simple)
      [] P.kind = "Option" -> ExpectedOption
      [] P.kind = "Tuple" -> ExpectedTuple(Len(P.values))
      [] P.kind = "Seq" -> ExpectedSeq
      [] P.kind = "Map" -> ExpectedMap
      [] P.kind = "Struct" -> ExpectedStruct(P.name)
      [] P.kind = "Enum" -> ExpectedEnum(P.name)

\* Display for Expected, as the pieces written.
Expected_fmt(e) ==
    CASE e.e = "Simple" -> <<e.s>>
      [] e.e = "Option" -> <<"option">>
      [] e.e = "Tuple" -> <<ToString(e.n), "-element tuple">>
      [] e.e = "Seq" -> <<"sequence">>
      [] e.e = "Map" -> <<"map">>
      [] e.e = "Struct" -> <<"struct ", e.name>>
      [] e.e = "Enum" -> <<"enum ", e.name>>

\* The kinds the decoder names without a payload: Kind::Tuple, Kind::Struct,
\* Kind::Enum.
KindTuple == [e |-> "Tuple", s |-> "", name |-> "", n |-> -1]
KindStruct == [e |-> "Struct", s |-> "", name |-> "", n |-> -1]
KindEnum == [e |-> "Enum", s |-> "", name |-> "", n |-> -1]

(***************************************************************************)
(* DeserializerOptions (src/src/deserializer.rs)                           *)
(***************************************************************************)
OptionsText == [enum_format |-> "Map", struct_format |-> "Map", borrowing |-> FALSE]
OptionsBinary == [enum_format |-> "Tuple", struct_format |-> "Tuple", borrowing |-> FALSE]
Borrowing(o) == [o EXCEPT !.borrowing = TRUE]
AllOptions == {OptionsText, OptionsBinary, Borrowing(OptionsText), Borrowing(OptionsBinary)}

(***************************************************************************)
(* What a request of the SchemaDeserializer does at schema position P:     *)
(* forward a request to the underlying decoder with a visitor, fail with a  *)
(* type mismatch, hand itself to the target, or abort.                     *)
(***************************************************************************)
Plain == [v |-> "plain"]
OptionVisitor(value) == [v |-> "OptionVisitor", value |-> value]
SeqVisitor(value) == [v |-> "SeqVisitor", value |-> value]
MapVisitor(key, value) == [v |-> "MapVisitor", key |-> key, value |-> value]
TupleVisitor(values) == [v |-> "TupleVisitor", values |-> values]
TupleStructVisitor(fields) == [v |-> "TupleStructVisitor", fields |-> fields]
MapStructVisitor(fields) == [v |-> "MapStructVisitor", fields |-> fields]
TupleEnumVisitor(variants) == [v |-> "TupleEnumVisitor", variants |-> variants]
ExternallyTaggedEnumVisitor(variants) ==
    [v |-> "ExternallyTaggedEnumVisitor", variants |-> variants]
InternallyTaggedEnumVisitor(tag, variants) ==
    [v |-> "InternallyTaggedEnumVisitor", tag |-> tag, variants |-> variants]
AdjacentlyTaggedEnumVisitor(tag, content, variants) ==
    [v |-> "AdjacentlyTaggedEnumVisitor", tag |-> tag, content |-> content,
     variants |-> variants]

FwdLen(call, len, visitor) ==
    [o |-> "fwd", call |-> call, len |-> len, visitor |-> visitor,
     found |-> NoKind, expected |-> NoKind]
Fwd(call, visitor) == FwdLen(call, 0, visitor)
\* Err(Self::Error::custom(format!("invalid type {}, expected {}", s.kind(), ..)))
InvalidType(P, exp) ==
    [o |-> "err", call |-> "", len |-> 0, visitor |-> Plain,
     found |-> expected(P), expected |-> exp]
\* visitor.visit_some(self), visitor.visit_newtype_struct(self)
VisitSomeSelf ==
    [o |-> "visit_some", call |-> "", len |-> 0, visitor |-> Plain,
     found |-> NoKind, expected |-> NoKind]
VisitNewtypeSelf ==
    [o |-> "visit_newtype_struct", call |-> "", len |-> 0, visitor |-> Plain,
     found |-> NoKind, expected |-> NoKind]
\* todo!()
Todo ==
    [o |-> "panic", call |-> "", len |-> 0, visitor |-> Plain,
     found |-> NoKind, expected |-> NoKind]

deserialize_bool(P) ==
    IF IsSimple(P, "Bool") THEN Fwd("deserialize_bool", Plain)
    ELSE InvalidType(P, ExpectedSimple("Bool"))

deserialize_i8(P) ==
    IF IsSimple(P, "I8") THEN Fwd("deserialize_i8", Plain)
    ELSE InvalidType(P, ExpectedSimple("I8"))

deserialize_i16(P) ==
    CASE IsSimple(P, "I8") -> Fwd("deserialize_i8", Plain)
      [] IsSimple(P, "I16") -> Fwd("deserialize_i16", Plain)
      [] OTHER -> InvalidType(P, ExpectedSimple("I16"))

deserialize_i32_narrowing(P) ==
    CASE IsSimple(P, "I8") -> Fwd("deserialize_i8", Plain)
      [] IsSimple(P, "I16") -> Fwd("deserialize_i16", Plain)
      [] IsSimple(P, "I32") -> Fwd("deserialize_i32", Plain)
      [] IsSimple(P, "I64") -> Fwd("deserialize_i64", Plain)
      [] OTHER -> InvalidType(P, ExpectedSimple("I32"))
deserialize_i32(P) ==
    CASE IsSimple(P, "I8") -> Fwd("deserialize_i8", Plain)
      [] IsSimple(P, "I16") -> Fwd("deserialize_i16", Plain)
      [] IsSimple(P, "I32") -> Fwd("deserialize_i32", Plain)
      [] OTHER -> InvalidType(P, ExpectedSimple("I32"))

deserialize_i64_requested(P) ==
    CASE IsSimple(P, "I8") -> Fwd("deserialize_i64", Plain)
      [] IsSimple(P, "I16") -> Fwd("deserialize_i64", Plain)
      [] IsSimple(P, "I32") -> Fwd("deserialize_i64", Plain)
      [] IsSimple(P, "I64") -> Fwd("deserialize_i64", Plain)
      [] OTHER -> InvalidType(P, ExpectedSimple("I64"))
deserialize_i64(P) ==
    CASE IsSimple(P, "I8") -> Fwd("deserialize_i8", Plain)
      [] IsSimple(P, "I16") -> Fwd("deserialize_i16", Plain)
      [] IsSimple(P, "I32") -> Fwd("deserialize_i32", Plain)
      [] IsSimple(P, "I64") -> Fwd("deserialize_i64", Plain)
      [] OTHER -> InvalidType(P, ExpectedSimple("I64"))

deserialize_i128(P) ==
    CASE IsSimple(P, "I8") -> Fwd("deserialize_i8", Plain)
      [] IsSimple(P, "I16") -> Fwd("deserialize_i16", Plain)
      [] IsSimple(P, "I32") -> Fwd("deserialize_i32", Plain)
      [] IsSimple(P, "I64") -> Fwd("deserialize_i64", Plain)
      [] IsSimple(P, "I128") -> Fwd("deserialize_i128", Plain)
      [] OTHER -> InvalidType(P, ExpectedSimple("I128"))

deserialize_u8(P) ==
    IF IsSimple(P, "U8") THEN Fwd("deserialize_u8", Plain)
    ELSE InvalidType(P, ExpectedSimple("U8"))

deserialize_u16(P) ==
    CASE IsSimple(P, "U8") -> Fwd("deserialize_u8", Plain)
      [] IsSimple(P, "U16") -> Fwd("deserialize_u16", Plain)
      [] OTHER -> InvalidType(P, ExpectedSimple("U16"))

deserialize_u32(P) ==
    CASE IsSimple(P, "U8") -> Fwd("deserialize_u8", Plain)
      [] IsSimple(P, "U16") -> Fwd("deserialize_u16", Plain)
      [] IsSimple(P, "U32") -> Fwd("deserialize_u32", Plain)
      [] OTHER -> InvalidType(P, ExpectedSimple("U32"))

deserialize_u64(P) ==
    CASE IsSimple(P, "U8") -> Fwd("deserialize_u8", Plain)
      [] IsSimple(P, "U16") -> Fwd("deserialize_u16", Plain)
      [] IsSimple(P, "U32") -> Fwd("deserialize_u32", Plain)
      [] IsSimple(P, "U64") -> Fwd("deserialize_u64", Plain)
      [] OTHER -> InvalidType(P, ExpectedSimple("U64"))

deserialize_u128(P) ==
    CASE IsSimple(P, "U8") -> Fwd("deserialize_u8", Plain)
      [] IsSimple(P, "U16") -> Fwd("deserialize_u16", Plain)
      [] IsSimple(P, "U32") -> Fwd("deserialize_u32", Plain)
      [] IsSimple(P, "U64") -> Fwd("deserialize_u64", Plain)
      [] IsSimple(P, "U128") -> Fwd("deserialize_u128", Plain)
      [] OTHER -> InvalidType(P, ExpectedSimple("U128"))

deserialize_f32(P) ==
    IF IsSimple(P, "F32") THEN Fwd("deserialize_f32", Plain)
    ELSE InvalidType(P, ExpectedSimple("F32"))

deserialize_f64_exact(P) ==
    IF IsSimple(P, "F64") THEN Fwd("deserialize_f64", Plain)
    ELSE InvalidType(P, ExpectedSimple("F64"))
deserialize_f64(P) ==
    CASE IsSimple(P, "F32") -> Fwd("deserialize_f32", Plain)
      [] IsSimple(P, "F64") -> Fwd("deserialize_f64", Plain)
      [] OTHER -> InvalidType(P, ExpectedSimple("F64"))

deserialize_char(P) ==
    IF IsSimple(P, "Char") THEN Fwd("deserialize_char", Plain)
    ELSE InvalidType(P, ExpectedSimple("Char"))

deserialize_str(P) ==
    IF IsSimple(P, "String") THEN Fwd("deserialize_str", Plain)
    ELSE InvalidType(P, ExpectedSimple("String"))

deserialize_string(P) ==
    IF IsSimple(P, "String") THEN Fwd("deserialize_string", Plain)
    ELSE InvalidType(P, ExpectedSimple("String"))

deserialize_bytes_lenient(P) ==
    IF IsSimple(P, "Bytes") \/ IsSimple(P, "String")
    THEN Fwd("deserialize_bytes", Plain)
    ELSE InvalidType(P, ExpectedSimple("Bytes"))
deserialize_bytes(P) ==
    IF IsSimple(P, "Bytes") THEN Fwd("deserialize_bytes", Plain)
    ELSE InvalidType(P, ExpectedSimple("Bytes"))

deserialize_byte_buf(P) ==
    IF IsSimple(P, "Bytes") THEN Fwd("deserialize_byte_buf", Plain)
    ELSE InvalidType(P, ExpectedSimple("Bytes"))

deserialize_unit(P) ==
    IF IsSimple(P, "Unit") THEN Fwd("deserialize_unit", Plain)
    ELSE InvalidType(P, ExpectedSimple("Unit"))

deserialize_option_strict(P) ==
    IF P.kind = "Option" THEN Fwd("deserialize_option", OptionVisitor(P.value))
    ELSE InvalidType(P, ExpectedOption)
deserialize_option(P) ==
    IF P.kind = "Option" THEN Fwd("deserialize_option", OptionVisitor(P.value))
    ELSE VisitSomeSelf

deserialize_unit_struct(P) ==
    IF IsSimple(P, "Unit") THEN Fwd("deserialize_unit_struct", Plain)
    ELSE InvalidType(P, ExpectedSimple("Unit"))

deserialize_newtype_struct_simple(P) ==
    IF P.kind = "Simple" THEN VisitNewtypeSelf ELSE InvalidType(P, KindStruct)
deserialize_newtype_struct(P) == VisitNewtypeSelf

deserialize_seq(P) ==
    IF P.kind = "Seq" THEN Fwd("deserialize_seq", SeqVisitor(P.value))
    ELSE InvalidType(P, ExpectedSeq)

deserialize_tuple_requested(P, len) ==
    IF P.kind = "Tuple"
    THEN FwdLen("deserialize_tuple", len, TupleVisitor(P.values))
    ELSE InvalidType(P, KindTuple)

deserialize_tuple(P, len) ==
    IF P.kind = "Tuple"
    THEN FwdLen("deserialize_tuple", Len(P.values), TupleVisitor(P.values))
    ELSE InvalidType(P, KindTuple)

deserialize_tuple_struct(P, len) ==
    IF P.kind = "Tuple"
    THEN FwdLen("deserialize_tuple_struct", Len(P.values), TupleVisitor(P.values))
    ELSE InvalidType(P, KindTuple)

deserialize_map(P) ==
    IF P.kind = "Map" THEN Fwd("deserialize_map", MapVisitor(P.key, P.value))
    ELSE InvalidType(P, ExpectedMap)

deserialize_struct(P, o) ==
    IF P.kind = "Struct"
    THEN IF o.struct_format = "Tuple"
         THEN FwdLen("deserialize_tuple", Len(P.fields), TupleStructVisitor(P.fields))
         ELSE Fwd("deserialize_map", MapStructVisitor(P.fields))
    ELSE InvalidType(P, KindStruct)

deserialize_enum(P, o) ==
    IF P.kind = "Enum"
    THEN IF o.enum_format = "Tuple"
         THEN FwdLen("deserialize_tuple", 2, TupleEnumVisitor(P.variants))
         ELSE CASE P.repr.repr = "ExternallyTagged" ->
                     Fwd("deserialize_map", ExternallyTaggedEnumVisitor(P.variants))
                [] P.repr.repr = "InternallyTagged" ->
                     Fwd("deserialize_map",
                         InternallyTaggedEnumVisitor(P.repr.tag, P.variants))
                [] P.repr.repr = "AdjacentlyTagged" ->
                     Fwd("deserialize_map",
                         AdjacentlyTaggedEnumVisitor(P.repr.tag, P.repr.content,
                                                     P.variants))
    ELSE InvalidType(P, KindEnum)

deserialize_identifier(P) ==
    IF IsSimple(P, "String") THEN Fwd("deserialize_identifier", Plain)
    ELSE InvalidType(P, ExpectedSimple("String"))

SimpleCall(k) ==
    CASE k = "Unit" -> "deserialize_unit"
      [] k = "Bool" -> "deserialize_bool"
      [] k = "U8" -> "deserialize_u8"
      [] k = "U16" -> "deserialize_u16"
      [] k = "U32" -> "deserialize_u32"
      [] k = "U64" -> "deserialize_u64"
      [] k = "U128" -> "deserialize_u128"
      [] k = "I8" -> "deserialize_i8"
      [] k = "I16" -> "deserialize_i16"
      [] k = "I32" -> "deserialize_i32"
      [] k = "I64" -> "deserialize_i64"
      [] k = "I128" -> "deserialize_i128"
      [] k = "F32" -> "deserialize_f32"
      [] k = "F64" -> "deserialize_f64"
      [] k = "Char" -> "deserialize_char"

deserialize_any(P, o) ==
    CASE P.kind = "Simple" ->
           (CASE P.simple = "String" ->
                   IF o.borrowing THEN Fwd("deserialize_str", Plain)
                   ELSE Fwd("deserialize_string", Plain)
              [] P.simple = "Bytes" ->
                   IF o.borrowing THEN Fwd("deserialize_bytes", Plain)
                   ELSE Fwd("deserialize_byte_buf", Plain)
              [] OTHER -> Fwd(SimpleCall(P.simple), Plain))
      [] P.kind = "Option" -> Fwd("deserialize_option", OptionVisitor(P.value))
      [] P.kind = "Seq" -> Fwd("deserialize_seq", SeqVisitor(P.value))
      [] P.kind = "Map" -> Fwd("deserialize_map", MapVisitor(P.key, P.value))
      [] P.kind = "Struct" ->
           IF o.struct_format = "Tuple"
           THEN FwdLen("deserialize_tuple", Len(P.fields), TupleStructVisitor(P.fields))
           ELSE Fwd("deserialize_map", MapStructVisitor(P.fields))
      [] P.kind = "Enum" ->
           IF o.enum_format = "Tuple"
           THEN FwdLen("deserialize_tuple", 2, TupleEnumVisitor(P.variants))
           ELSE IF P.repr.repr = "ExternallyTagged"
                THEN Fwd("deserialize_map", ExternallyTaggedEnumVisitor(P.variants))
                ELSE Todo
      [] P.kind = "Tuple" ->
           FwdLen("deserialize_tuple", Len(P.values), TupleVisitor(P.values))

deserialize_ignored_any(P, o) == deserialize_any(P, o)

\* The requests a target can make of a deserializer.
Methods ==
    {"deserialize_any", "deserialize_bool",
     "deserialize_i8", "deserialize_i16", "deserialize_i32", "deserialize_i64",
     "deserialize_i128",
     "deserialize_u8", "deserialize_u16", "deserialize_u32", "deserialize_u64",
     "deserialize_u128",
     "deserialize_f32", "deserialize_f64", "deserialize_char",
     "deserialize_str", "deserialize_string", "deserialize_bytes",
     "deserialize_byte_buf", "deserialize_unit", "deserialize_option",
     "deserialize_unit_struct", "deserialize_newtype_struct", "deserialize_seq",
     "deserialize_tuple", "deserialize_tuple_struct", "deserialize_map",
     "deserialize_struct", "deserialize_enum", "deserialize_identifier",
     "deserialize_ignored_any"}

\* impl Deserializer for SchemaDeserializer: method m, with tuple length len,
\* at schema position P under options o.
Dispatch(m, len, P, o) ==
    CASE m = "deserialize_any" -> deserialize_any(P, o)
      [] m = "deserialize_bool" -> deserialize_bool(P)
      [] m = "deserialize_i8" -> deserialize_i8(P)
      [] m = "deserialize_i16" -> deserialize_i16(P)
      [] m = "deserialize_i32" -> deserialize_i32(P)
      [] m = "deserialize_i64" -> deserialize_i64(P)
      [] m = "deserialize_i128" -> deserialize_i128(P)
      [] m = "deserialize_u8" -> deserialize_u8(P)
      [] m = "deserialize_u16" -> deserialize_u16(P)
      [] m = "deserialize_u32" -> deserialize_u32(P)
      [] m = "deserialize_u64" -> deserialize_u64(P)
      [] m = "deserialize_u128" -> deserialize_u128(P)
      [] m = "deserialize_f32" -> deserialize_f32(P)
      [] m = "deserialize_f64" -> deserialize_f64(P)
      [] m = "deserialize_char" -> deserialize_char(P)
      [] m = "deserialize_str" -> deserialize_str(P)
      [] m = "deserialize_string" -> deserialize_string(P)
      [] m = "deserialize_bytes" -> deserialize_bytes(P)
      [] m = "deserialize_byte_buf" -> deserialize_byte_buf(P)
      [] m = "deserialize_unit" -> deserialize_unit(P)
      [] m = "deserialize_option" -> deserialize_option(P)
      [] m = "deserialize_unit_struct" -> deserialize_unit_struct(P)
      [] m = "deserialize_newtype_struct" -> deserialize_newtype_struct(P)
      [] m = "deserialize_seq" -> deserialize_seq(P)
      [] m = "deserialize_tuple" -> deserialize_tuple(P, len)
      [] m = "deserialize_tuple_struct" -> deserialize_tuple_struct(P, len)
      [] m = "deserialize_map" -> deserialize_map(P)
      [] m = "deserialize_struct" -> deserialize_struct(P, o)
      [] m = "deserialize_enum" -> deserialize_enum(P, o)
      [] m = "deserialize_identifier" -> deserialize_identifier(P)
      [] m = "deserialize_ignored_any" -> deserialize_ignored_any(P, o)

(***************************************************************************)
(* THE UNDERLYING DECODER                                                  *)
(* A self-describing format over a tree of values: a request for a kind    *)
(* other than the kind of the value at the read position is its own        *)
(* "invalid type" error.  null is the absent option.                       *)
(***************************************************************************)
DPrim(k, n, s) == [k |-> k, n |-> n, s |-> s]
DNone == [k |-> "None", n |-> 0, s |-> ""]
DSeq(elems) == [k |-> "Seq", n |-> 0, s |-> "", elems |-> elems]
DEntry(key, val) == [key |-> key, val |-> val]
DMap(entries) == [k |-> "Map", n |-> 0, s |-> "", entries |-> entries]
DStr(s) == DPrim("String", 0, s)
DU64(n) == DPrim("U64", n, "")

\* The kind of value each request of the underlying decoder reads.
UKindOf(call) ==
    CASE call = "deserialize_unit" -> "Unit"
      [] call = "deserialize_unit_struct" -> "Unit"
      [] call = "deserialize_bool" -> "Bool"
      [] call = "deserialize_u8" -> "U8"
      [] call = "deserialize_u16" -> "U16"
      [] call = "deserialize_u32" -> "U32"
      [] call = "deserialize_u64" -> "U64"
      [] call = "deserialize_u128" -> "U128"
      [] call = "deserialize_i8" -> "I8"
      [] call = "deserialize_i16" -> "I16"
      [] call = "deserialize_i32" -> "I32"
      [] call = "deserialize_i64" -> "I64"
      [] call = "deserialize_i128" -> "I128"
      [] call = "deserialize_f32" -> "F32"
      [] call = "deserialize_f64" -> "F64"
      [] call = "deserialize_char" -> "Char"
      [] call = "deserialize_str" -> "String"
      [] call = "deserialize_string" -> "String"
      [] call = "deserialize_identifier" -> "String"
      [] call = "deserialize_bytes" -> "Bytes"
      [] call = "deserialize_byte_buf" -> "Bytes"
      [] call = "deserialize_seq" -> "Seq"
      [] call = "deserialize_tuple" -> "Seq"
      [] call = "deserialize_tuple_struct" -> "Seq"
      [] call = "deserialize_map" -> "Map"
      [] OTHER -> "?"

UCall(call, len) == [call |-> call, len |-> len]

(***************************************************************************)
(* THE STATE OF A DECODE                                                   *)
(***************************************************************************)
Running == [st |-> "running", msg |-> "", found |-> NoKind, expected |-> NoKind]
OkResult == [st |-> "ok", msg |-> "", found |-> NoKind, expected |-> NoKind]
\* A::Error::custom(msg)
Custom(msg) == [st |-> "err", msg |-> msg, found |-> NoKind, expected |-> NoKind]
InvalidTypeResult(d) ==
    [st |-> "err", msg |-> "invalid type", found |-> d.found, expected |-> d.expected]
\* An error of the underlying decoder, passed on unchanged.
UnderlyingError == Custom("underlying: invalid type")
Panicked == [st |-> "panic", msg |-> "not yet implemented", found |-> NoKind,
             expected |-> NoKind]

\* What is handed to the target.
Ev(ev) == [ev |-> ev, k |-> "", n |-> 0, s |-> ""]
EvVisit(d) == [ev |-> "visit", k |-> d.k, n |-> d.n, s |-> d.s]
EvKey(name) == [ev |-> "key", k |-> "", n |-> 0, s |-> name]

\* SchemaDeserializer { schema, deserializer } over the value `data`.
SchemaDeserializer(schema, data) == [t |-> "SchemaDeserializer", schema |-> schema, data |-> data]
SchemaSeqAccess(schema, rest) == [t |-> "SchemaSeqAccess", schema |-> schema, rest |-> rest]
SchemaMapAccess(key, value, rest, pend) ==
    [t |-> "SchemaMapAccess", key |-> key, value |-> value, rest |-> rest, pend |-> pend]
TupleSeqAccess(values, rest) == [t |-> "TupleSeqAccess", values |-> values, rest |-> rest]
TupleStructAccess(fields, value, rest) ==
    [t |-> "TupleStructAccess", fields |-> fields, value |-> value, rest |-> rest]
MapStructAccess(fields, value, rest, pend) ==
    [t |-> "MapStructAccess", fields |-> fields, value |-> value, rest |-> rest,
     pend |-> pend]
TupleEnumAccess(tag, value, rest) ==
    [t |-> "TupleEnumAccess", tag |-> tag, value |-> value, rest |-> rest]
ExternallyTaggedEnumAccess(tag, value, rest, pend) ==
    [t |-> "ExternallyTaggedEnumAccess", tag |-> tag, value |-> value, rest |-> rest,
     pend |-> pend]

\* The decode as a value: S.stack, S.result, S.ulog, S.out.
Fail(S, res) == [S EXCEPT !.stack = <<>>, !.result = res]
Give(S, ev) == [S EXCEPT !.out = Append(@, ev)]
Ask(S, call) == [S EXCEPT !.ulog = Append(@, call)]
ReplaceTop(S, f) == [S EXCEPT !.stack = Append(Front(@), f)]
Push(S, f) == [S EXCEPT !.stack = Append(@, f)]
\* The innermost deserializer or cursor is done; the decode is when none is left.
Return(S) ==
    [S EXCEPT !.stack = Front(@),
              !.result = IF Len(S.stack) = 1 THEN OkResult ELSE @]

\* SchemaSeed::deserialize: the seed gets a SchemaDeserializer at `schema`.
SchemaSeed(S, schema, data) == Push(S, SchemaDeserializer(schema, data))

(***************************************************************************)
(* VISITORS                                                                *)
(***************************************************************************)
\* OptionVisitor::visit_some, ::visit_none
OptionVisitor_visit_some(S, vis, data) ==
    ReplaceTop(Give(S, Ev("some")), SchemaDeserializer(vis.value, data))
OptionVisitor_visit_none(S, vis) == Return(Give(S, Ev("none")))

\* SeqVisitor::visit_seq, MapVisitor::visit_map, TupleVisitor::visit_seq
SeqVisitor_visit_seq(S, vis, elems) ==
    ReplaceTop(Give(S, Ev("seq")), SchemaSeqAccess(vis.value, elems))
MapVisitor_visit_map(S, vis, entries) ==
    ReplaceTop(Give(S, Ev("map")), SchemaMapAccess(vis.key, vis.value, entries, <<>>))
TupleVisitor_visit_seq(S, vis, elems) ==
    ReplaceTop(Give(S, Ev("seq")), TupleSeqAccess(vis.values, elems))

\* TupleStructVisitor::visit_seq, MapStructVisitor::visit_map
TupleStructVisitor_visit_seq(S, vis, elems) ==
    ReplaceTop(Give(S, Ev("map")), TupleStructAccess(vis.fields, <<>>, elems))
MapStructVisitor_visit_map(S, vis, entries) ==
    ReplaceTop(Give(S, Ev("map")), MapStructAccess(vis.fields, <<>>, entries, <<>>))

\* slice::get(tag): the variant at a zero-based index.
VariantsGetOffByOne(variants, tag) ==
    IF tag >= 1 /\ tag <= Len(variants) THEN <<variants[tag]>> ELSE <<>>
VariantsGet(variants, tag) ==
    IF tag < Len(variants) THEN <<variants[tag + 1]>> ELSE <<>>

\* TupleEnumVisitor::visit_seq
TupleEnumVisitor_visit_seq(S, vis, elems) ==
    LET S1 == Ask(S, UCall("next_element_seed", 0))
    IN  IF elems = <<>>
        THEN Fail(S1, Custom("missing tag"))
        ELSE LET S2 == Ask(S1, UCall("deserialize_u64", 0))
             IN  IF elems[1].k # "U64"
                 THEN Fail(S2, UnderlyingError)
                 ELSE LET variant == VariantsGet(vis.variants, elems[1].n)
                      IN  IF variant = <<>>
                          THEN Fail(S2, Custom("invalid variant"))
                          ELSE IF variant[1].shape = "Newtype"
                               THEN ReplaceTop(Give(S2, Ev("map")),
                                               TupleEnumAccess(<<variant[1].name>>,
                                                               <<variant[1].value>>,
                                                               Tail(elems)))
                               ELSE Fail(S2, Panicked)

\* Iterator::find over the variants by name.
RECURSIVE FindByName(_, _)
FindByName(list, name) ==
    IF list = <<>> THEN <<>>
    ELSE IF list[1].name = name THEN <<list[1]>>
    ELSE FindByName(Tail(list), name)

FindVariantFirst(variants, tag) == IF variants = <<>> THEN <<>> ELSE <<variants[1]>>
FindVariant(variants, tag) == FindByName(variants, tag)

\* ExternallyTaggedEnumVisitor::visit_map
ExternallyTaggedEnumVisitor_visit_map(S, vis, entries) ==
    LET S1 == Ask(S, UCall("next_key_seed", 0))
    IN  IF entries = <<>>
        THEN Fail(S1, Custom("missing tag"))
        ELSE LET S2 == Ask(S1, UCall("deserialize_string", 0))
             IN  IF entries[1].key.k # "String"
                 THEN Fail(S2, UnderlyingError)
                 ELSE LET variant == FindVariant(vis.variants, entries[1].key.s)
                      IN  IF variant = <<>>
                          THEN Fail(S2, Custom("invalid variant"))
                          ELSE IF variant[1].shape = "Newtype"
                               THEN ReplaceTop(Give(S2, Ev("map")),
                                               ExternallyTaggedEnumAccess(
                                                   <<variant[1].name>>,
                                                   <<variant[1].value>>,
                                                   Tail(entries),
                                                   <<entries[1].val>>))
                               ELSE Fail(S2, Panicked)

\* The entry of a map whose key is the string `name`: its position, 0 if none.
RECURSIVE EntryAt(_, _, _)
EntryAt(entries, name, i) ==
    IF i > Len(entries) THEN 0
    ELSE IF entries[i].key = DStr(name) THEN i
    ELSE EntryAt(entries, name, i + 1)
Without(entries, i) == SubSeq(entries, 1, i - 1) \o SubSeq(entries, i + 1, Len(entries))

\* InternallyTaggedEnumVisitor::visit_map, which deserialize_enum names and the
\* sources do not define: the variant is named by the value of the tag field,
\* and the other fields of the same map are its payload, exposed as a keyed
\* cursor of one entry under the variant's name.
InternallyTaggedEnumVisitor_visit_map(S, vis, entries) ==
    LET S1 == Ask(Ask(S, UCall("next_key_seed", 0)), UCall("deserialize_string", 0))
        at == EntryAt(entries, vis.tag, 1)
    IN  IF at = 0
        THEN Fail(S1, Custom("missing tag"))
        ELSE LET S2 == Ask(Ask(S1, UCall("next_value_seed", 0)),
                           UCall("deserialize_string", 0))
             IN  IF entries[at].val.k # "String"
                 THEN Fail(S2, UnderlyingError)
                 ELSE LET variant == FindVariant(vis.variants, entries[at].val.s)
                      IN  IF variant = <<>>
                          THEN Fail(S2, Custom("invalid variant"))
                          ELSE ReplaceTop(Give(S2, Ev("map")),
                                          ExternallyTaggedEnumAccess(
                                              <<variant[1].name>>,
                                              <<variant[1].value>>,
                                              <<>>,
                                              <<DMap(Without(entries, at))>>))

\* AdjacentlyTaggedEnumVisitor::visit_map, likewise not defined in the sources:
\* the variant is named by the value of the tag field and its payload is the
\* value of the content field.
AdjacentlyTaggedEnumVisitor_visit_map(S, vis, entries) ==
    LET S1 == Ask(Ask(S, UCall("next_key_seed", 0)), UCall("deserialize_string", 0))
        at == EntryAt(entries, vis.tag, 1)
        content == EntryAt(entries, vis.content, 1)
    IN  IF at = 0
        THEN Fail(S1, Custom("missing tag"))
        ELSE LET S2 == Ask(Ask(S1, UCall("next_value_seed", 0)),
                           UCall("deserialize_string", 0))
             IN  IF entries[at].val.k # "String"
                 THEN Fail(S2, UnderlyingError)
                 ELSE LET variant == FindVariant(vis.variants, entries[at].val.s)
                      IN  IF variant = <<>>
                          THEN Fail(S2, Custom("invalid variant"))
                          ELSE ReplaceTop(Give(S2, Ev("map")),
                                          ExternallyTaggedEnumAccess(
                                              <<variant[1].name>>,
                                              <<variant[1].value>>,
                                              <<>>,
                                              IF content = 0 THEN <<>>
                                              ELSE <<entries[content].val>>))

\* The visitor the engine passed is called back by the underlying decoder.
VisitSeq(S, vis, elems) ==
    CASE vis.v = "SeqVisitor" -> SeqVisitor_visit_seq(S, vis, elems)
      [] vis.v = "TupleVisitor" -> TupleVisitor_visit_seq(S, vis, elems)
      [] vis.v = "TupleStructVisitor" -> TupleStructVisitor_visit_seq(S, vis, elems)
      [] vis.v = "TupleEnumVisitor" -> TupleEnumVisitor_visit_seq(S, vis, elems)
      [] OTHER -> Fail(S, UnderlyingError)

VisitMap(S, vis, entries) ==
    CASE vis.v = "MapVisitor" -> MapVisitor_visit_map(S, vis, entries)
      [] vis.v = "MapStructVisitor" -> MapStructVisitor_visit_map(S, vis, entries)
      [] vis.v = "ExternallyTaggedEnumVisitor" ->
             ExternallyTaggedEnumVisitor_visit_map(S, vis, entries)
      [] vis.v = "InternallyTaggedEnumVisitor" ->
             InternallyTaggedEnumVisitor_visit_map(S, vis, entries)
      [] vis.v = "AdjacentlyTaggedEnumVisitor" ->
             AdjacentlyTaggedEnumVisitor_visit_map(S, vis, entries)
      [] OTHER -> Fail(S, UnderlyingError)

\* The underlying decoder serves `call` at the value `data` and calls the
\* visitor it was given.
Underlying(S, call, vis, data) ==
    IF call = "deserialize_option"
    THEN IF data.k = "None"
         THEN OptionVisitor_visit_none(S, vis)
         ELSE OptionVisitor_visit_some(S, vis, data)
    ELSE IF data.k # UKindOf(call)
    THEN Fail(S, UnderlyingError)
    ELSE CASE data.k = "Seq" -> VisitSeq(S, vis, data.elems)
           [] data.k = "Map" -> VisitMap(S, vis, data.entries)
           [] OTHER -> Return(Give(S, EvVisit(data)))

RequestEffect_probe(S, m, len, o) ==
    LET f == Last(S.stack)
        d == Dispatch(m, len, f.schema, o)
    IN  CASE d.o = "err" -> Fail(Ask(S, UCall(m, len)), InvalidTypeResult(d))
          [] d.o = "panic" -> Fail(S, Panicked)
          [] d.o = "visit_some" -> Give(S, Ev("some"))
          [] d.o = "visit_newtype_struct" -> Give(S, Ev("newtype"))
          [] d.o = "fwd" ->
                Underlying(Ask(S, UCall(d.call, d.len)), d.call, d.visitor, f.data)

\* One request of the target at the innermost SchemaDeserializer.
RequestEffect(S, m, len, o) ==
    LET f == Last(S.stack)
        d == Dispatch(m, len, f.schema, o)
    IN  CASE d.o = "err" -> Fail(S, InvalidTypeResult(d))
          [] d.o = "panic" -> Fail(S, Panicked)
          [] d.o = "visit_some" -> Give(S, Ev("some"))
          [] d.o = "visit_newtype_struct" -> Give(S, Ev("newtype"))
          [] d.o = "fwd" ->
                Underlying(Ask(S, UCall(d.call, d.len)), d.call, d.visitor, f.data)

(***************************************************************************)
(* CURSORS                                                                 *)
(***************************************************************************)
InvalidUse == Custom("invalid use of next_value_seed")

\* SchemaSeqAccess::next_element_seed
SchemaSeqAccess_next_element_seed(S) ==
    LET f == Last(S.stack)
        S1 == Ask(S, UCall("next_element_seed", 0))
    IN  IF f.rest = <<>>
        THEN Give(S1, Ev("end"))
        ELSE SchemaSeed(ReplaceTop(S1, [f EXCEPT !.rest = Tail(@)]),
                        f.schema, f.rest[1])

\* TupleSeqAccess::next_element_seed
TupleSeqAccess_next_element_seed(S) ==
    LET f == Last(S.stack)
    IN  IF f.values = <<>>
        THEN Give(S, Ev("end"))
        ELSE LET S1 == Ask(S, UCall("next_element_seed", 0))
                 g == [f EXCEPT !.values = Tail(@)]
             IN  IF f.rest = <<>>
                 THEN Give(ReplaceTop(S1, g), Ev("end"))
                 ELSE SchemaSeed(ReplaceTop(S1, [g EXCEPT !.rest = Tail(@)]),
                                 f.values[1], f.rest[1])

\* SchemaMapAccess::next_key_seed, ::next_value_seed
SchemaMapAccess_next_key_seed(S) ==
    LET f == Last(S.stack)
        S1 == Ask(S, UCall("next_key_seed", 0))
    IN  IF f.rest = <<>>
        THEN Give(S1, Ev("end"))
        ELSE SchemaSeed(ReplaceTop(S1, [f EXCEPT !.rest = Tail(@),
                                                 !.pend = <<f.rest[1].val>>]),
                        f.key, f.rest[1].key)

SchemaMapAccess_next_value_seed_key(S) ==
    LET f == Last(S.stack)
        S1 == Ask(S, UCall("next_value_seed", 0))
    IN  IF f.pend = <<>>
        THEN Fail(S1, UnderlyingError)
        ELSE SchemaSeed(ReplaceTop(S1, [f EXCEPT !.pend = <<>>]), f.key, f.pend[1])
SchemaMapAccess_next_value_seed(S) ==
    LET f == Last(S.stack)
        S1 == Ask(S, UCall("next_value_seed", 0))
    IN  IF f.pend = <<>>
        THEN Fail(S1, UnderlyingError)
        ELSE SchemaSeed(ReplaceTop(S1, [f EXCEPT !.pend = <<>>]), f.value, f.pend[1])

\* TupleStructAccess::next_key_seed, ::next_value_seed
TupleStructAccess_next_key_seed_stale(S) ==
    LET f == Last(S.stack)
    IN  IF f.fields = <<>>
        THEN Give(S, Ev("end"))
        ELSE Give(ReplaceTop(S, [f EXCEPT !.fields = Tail(@)]), EvKey(f.fields[1].name))
TupleStructAccess_next_key_seed(S) ==
    LET f == Last(S.stack)
    IN  IF f.fields = <<>>
        THEN Give(S, Ev("end"))
        ELSE Give(ReplaceTop(S, [f EXCEPT !.fields = Tail(@),
                                          !.value = <<f.fields[1].value>>]),
                  EvKey(f.fields[1].name))

TupleStructAccess_next_value_seed(S) ==
    LET f == Last(S.stack)
    IN  IF f.value = <<>>
        THEN Fail(S, InvalidUse)
        ELSE LET S1 == Ask(S, UCall("next_element_seed", 0))
                 g == [f EXCEPT !.value = <<>>]
             IN  IF f.rest = <<>>
                 THEN Give(ReplaceTop(S1, g), Ev("absent"))
                 ELSE SchemaSeed(ReplaceTop(S1, [g EXCEPT !.rest = Tail(@)]),
                                 f.value[1], f.rest[1])

\* self.fields.iter().find(|field| field.name == key)
FindFieldFirst(fields, key) == IF fields = <<>> THEN <<>> ELSE <<fields[1]>>
FindField(fields, key) == FindByName(fields, key)

\* MapStructAccess::next_key_seed, ::next_value_seed
MapStructAccess_next_key_seed_default(S) ==
    LET f == Last(S.stack)
        S1 == Ask(S, UCall("next_key_seed", 0))
        defaulted == {i \in 1..Len(f.fields) : f.fields[i].default # <<>>}
    IN  IF f.rest = <<>>
        THEN IF defaulted = {}
             THEN Give(S1, Ev("end"))
             ELSE LET field == f.fields[CHOOSE i \in defaulted : \A j \in defaulted : i <= j]
                  IN  Give(Give(S1, EvKey(field.name)), EvVisit(field.default[1]))
        ELSE LET S2 == Ask(S1, UCall("deserialize_string", 0))
                 key == f.rest[1].key
             IN  IF key.k # "String"
                 THEN Fail(S2, UnderlyingError)
                 ELSE LET field == FindField(f.fields, key.s)
                      IN  IF field = <<>>
                          THEN Fail(S2, Custom("unknown field"))
                          ELSE Give(ReplaceTop(S2, [f EXCEPT !.value = <<field[1].value>>,
                                                             !.rest = Tail(@),
                                                             !.pend = <<f.rest[1].val>>]),
                                    EvKey(key.s))
MapStructAccess_next_key_seed_skip(S) ==
    LET f == Last(S.stack)
        S1 == Ask(S, UCall("next_key_seed", 0))
    IN  IF f.rest = <<>>
        THEN Give(S1, Ev("end"))
        ELSE LET S2 == Ask(S1, UCall("deserialize_string", 0))
                 key == f.rest[1].key
             IN  IF key.k # "String"
                 THEN Fail(S2, UnderlyingError)
                 ELSE LET field == FindField(f.fields, key.s)
                      IN  IF field = <<>>
                          THEN Give(ReplaceTop(Ask(S2, UCall("next_value_seed", 0)),
                                               [f EXCEPT !.rest = Tail(@)]),
                                    Ev("skip"))
                          ELSE Give(ReplaceTop(S2, [f EXCEPT !.value = <<field[1].value>>,
                                                             !.rest = Tail(@),
                                                             !.pend = <<f.rest[1].val>>]),
                                    EvKey(key.s))
MapStructAccess_next_key_seed(S) ==
    LET f == Last(S.stack)
        S1 == Ask(S, UCall("next_key_seed", 0))
    IN  IF f.rest = <<>>
        THEN Give(S1, Ev("end"))
        ELSE LET S2 == Ask(S1, UCall("deserialize_string", 0))
                 key == f.rest[1].key
             IN  IF key.k # "String"
                 THEN Fail(S2, UnderlyingError)
                 ELSE LET field == FindField(f.fields, key.s)
                      IN  IF field = <<>>
                          THEN Fail(S2, Custom("unknown field"))
                          ELSE Give(ReplaceTop(S2, [f EXCEPT !.value = <<field[1].value>>,
                                                             !.rest = Tail(@),
                                                             !.pend = <<f.rest[1].val>>]),
                                    EvKey(key.s))

MapStructAccess_next_value_seed(S) ==
    LET f == Last(S.stack)
    IN  IF f.value = <<>>
        THEN Fail(S, InvalidUse)
        ELSE LET S1 == Ask(S, UCall("next_value_seed", 0))
             IN  IF f.pend = <<>>
                 THEN Fail(S1, UnderlyingError)
                 ELSE SchemaSeed(ReplaceTop(S1, [f EXCEPT !.value = <<>>, !.pend = <<>>]),
                                 f.value[1], f.pend[1])

TupleEnumAccess_next_key_seed_again(S) ==
    LET f == Last(S.stack)
    IN  IF f.tag = <<>>
        THEN Give(S, Ev("end"))
        ELSE Give(S, EvKey(f.tag[1]))

\* TupleEnumAccess::next_key_seed, ::next_value_seed
TupleEnumAccess_next_key_seed(S) ==
    LET f == Last(S.stack)
    IN  IF f.tag = <<>>
        THEN Give(S, Ev("end"))
        ELSE Give(ReplaceTop(S, [f EXCEPT !.tag = <<>>]), EvKey(f.tag[1]))

TupleEnumAccess_next_value_seed(S) ==
    LET f == Last(S.stack)
    IN  IF f.value = <<>>
        THEN Fail(S, InvalidUse)
        ELSE LET S1 == Ask(S, UCall("next_element_seed", 0))
                 g == [f EXCEPT !.value = <<>>]
             IN  IF f.rest = <<>>
                 THEN Give(ReplaceTop(S1, g), Ev("absent"))
                 ELSE SchemaSeed(ReplaceTop(S1, [g EXCEPT !.rest = Tail(@)]),
                                 f.value[1], f.rest[1])

\* ExternallyTaggedEnumAccess::next_key_seed, ::next_value_seed
ExternallyTaggedEnumAccess_next_key_seed(S) ==
    LET f == Last(S.stack)
    IN  IF f.tag = <<>>
        THEN Give(S, Ev("end"))
        ELSE Give(ReplaceTop(S, [f EXCEPT !.tag = <<>>]), EvKey(f.tag[1]))

ExternallyTaggedEnumAccess_next_value_seed(S) ==
    LET f == Last(S.stack)
    IN  IF f.value = <<>>
        THEN Fail(S, InvalidUse)
        ELSE LET S1 == Ask(S, UCall("next_value_seed", 0))
             IN  IF f.pend = <<>>
                 THEN Fail(S1, UnderlyingError)
                 ELSE SchemaSeed(ReplaceTop(S1, [f EXCEPT !.value = <<>>, !.pend = <<>>]),
                                 f.value[1], f.pend[1])

SeqCursors == {"SchemaSeqAccess", "TupleSeqAccess"}
MapCursors ==
    {"SchemaMapAccess", "TupleStructAccess", "MapStructAccess", "TupleEnumAccess",
     "ExternallyTaggedEnumAccess"}

next_element_seed(S) ==
    IF Last(S.stack).t = "SchemaSeqAccess"
    THEN SchemaSeqAccess_next_element_seed(S)
    ELSE TupleSeqAccess_next_element_seed(S)

next_key_seed(S) ==
    LET t == Last(S.stack).t
    IN  CASE t = "SchemaMapAccess" -> SchemaMapAccess_next_key_seed(S)
          [] t = "TupleStructAccess" -> TupleStructAccess_next_key_seed(S)
          [] t = "MapStructAccess" -> MapStructAccess_next_key_seed(S)
          [] t = "TupleEnumAccess" -> TupleEnumAccess_next_key_seed(S)
          [] t = "ExternallyTaggedEnumAccess" ->
                 ExternallyTaggedEnumAccess_next_key_seed(S)

next_value_seed(S) ==
    LET t == Last(S.stack).t
    IN  CASE t = "SchemaMapAccess" -> SchemaMapAccess_next_value_seed(S)
          [] t = "TupleStructAccess" -> TupleStructAccess_next_value_seed(S)
          [] t = "MapStructAccess" -> MapStructAccess_next_value_seed(S)
          [] t = "TupleEnumAccess" -> TupleEnumAccess_next_value_seed(S)
          [] t = "ExternallyTaggedEnumAccess" ->
                 ExternallyTaggedEnumAccess_next_value_seed(S)

(***************************************************************************)
(* THE DECODE AS A STATE MACHINE                                           *)
(* The target (a Deserialize implementation and its visitors) makes one    *)
(* request of the innermost deserializer or cursor at a time; an error     *)
(* ends the decode.                                                        *)
(***************************************************************************)
\* Calls a target makes of cursors and of deserializers handed to it
\* unchanged, per decode.
MaxCalls == 5
\* Requests that hand the same deserializer back to the target, per decode.
MaxSelf == 1

\* The decode before a step; the step's requests to the underlying decoder
\* are collected from none.
Cur == [stack |-> stack, result |-> result, ulog |-> <<>>, out |-> out]

Became(S) ==
    /\ stack' = S.stack
    /\ result' = S.result
    /\ ulog' = S.ulog
    /\ ureqs' = ureqs + Len(S.ulog)
    /\ out' = S.out

NoLast == [op |-> "", len |-> 0, frame |-> [t |-> ""], obefore |-> 0,
           depth |-> 0, calls |-> 0, selfs |-> 0]

Did(op, len) ==
    last' = [op |-> op, len |-> len, frame |-> Last(stack),
             obefore |-> Len(out), depth |-> Len(stack),
             calls |-> last.calls + (IF op \in Methods THEN 0 ELSE 1),
             selfs |-> last.selfs +
                       (IF op \in Methods /\ Dispatch(op, len, Last(stack).schema, opts).o
                                                \in {"visit_some", "visit_newtype_struct"}
                        THEN 1 ELSE 0)]

Active == result.st = "running" /\ stack # <<>>

TupleLens == {0, 2}

\* The target calls deserializer.deserialize_*(visitor).
Request(m, len) ==
    /\ Active
    /\ Last(stack).t = "SchemaDeserializer"
    /\ len # 0 => m \in {"deserialize_tuple", "deserialize_tuple_struct"}
    /\ Dispatch(m, len, Last(stack).schema, opts).o
           \in {"visit_some", "visit_newtype_struct"} => last.selfs < MaxSelf
    /\ Became(RequestEffect(Cur, m, len, opts))
    /\ Did(m, len)
    /\ UNCHANGED <<opts, input, decoder, copy, runs, regvars>>

\* The target's visitor calls seq.next_element_seed(seed).
NextElement ==
    /\ Active
    /\ Last(stack).t \in SeqCursors
    /\ last.calls < MaxCalls
    /\ Became(next_element_seed(Cur))
    /\ Did("next_element_seed", 0)
    /\ UNCHANGED <<opts, input, decoder, copy, runs, regvars>>

\* The target's visitor calls map.next_key_seed(seed).
NextKey ==
    /\ Active
    /\ Last(stack).t \in MapCursors
    /\ last.calls < MaxCalls
    /\ Became(next_key_seed(Cur))
    /\ Did("next_key_seed", 0)
    /\ UNCHANGED <<opts, input, decoder, copy, runs, regvars>>

\* The target's visitor calls map.next_value_seed(seed).
NextValue ==
    /\ Active
    /\ Last(stack).t \in MapCursors
    /\ last.calls < MaxCalls
    /\ Became(next_value_seed(Cur))
    /\ Did("next_value_seed", 0)
    /\ UNCHANGED <<opts, input, decoder, copy, runs, regvars>>

\* The target's visitor returns its value.
Finish ==
    /\ Active
    /\ Last(stack).t \in SeqCursors \cup MapCursors
    /\ Became(Return(Cur))
    /\ Did("finish", 0)
    /\ UNCHANGED <<opts, input, decoder, copy, runs, regvars>>

(***************************************************************************)
(* Schemas and inputs of the runs.                                         *)
(***************************************************************************)
PersonFields ==
    <<NamedFieldSchema("name", Simple("String")),
      WithDefault(NamedFieldSchema("age", Simple("U64")), DU64(7))>>
Person == StructSchema("Person", PersonFields)
EVariants ==
    <<VariantSchema("Newtype", "A", Simple("String")),
      VariantSchema("Newtype", "B", Simple("U64")),
      VariantSchema("Unit", "C", Simple("Unit")),
      VariantSchema("Tuple", "D", Simple("Unit")),
      VariantSchema("Struct", "F", Simple("Unit"))>>
EnumE == EnumSchema("E", EVariants, ExternallyTagged)
EnumI == EnumSchema("I", EVariants, InternallyTagged("type"))
EnumA == EnumSchema("J", EVariants, AdjacentlyTagged("t", "c"))

SimpleRoots == {Simple(k) : k \in SimpleKinds}
CompoundRoots ==
    {OptionSchema(Simple("String")), SeqSchema(Simple("U8")),
     MapSchema(Simple("String"), Simple("U64")),
     TupleSchema(<<Simple("String"), Simple("U64")>>), TupleSchema(<<>>),
     Person, EnumE, EnumI, EnumA}

SampleOf(k) ==
    CASE k = "String" -> DStr("Ann")
      [] k = "Unit" -> DPrim(k, 0, "")
      [] k = "Bool" -> DPrim(k, 1, "")
      [] OTHER -> DPrim(k, 30, "")

Ann == DStr("Ann")

OptionInputs == {DNone, Ann, DU64(30)}
SeqInputs ==
    {DSeq(<<>>), DSeq(<<DPrim("U8", 1, ""), DPrim("U8", 2, "")>>),
     DSeq(<<Ann, DU64(30)>>), DMap(<<>>), DNone}
MapInputs ==
    {DMap(<<>>), DMap(<<DEntry(DStr("a"), DU64(1))>>),
     DMap(<<DEntry(DStr("age"), DU64(30)), DEntry(DStr("name"), Ann)>>),
     DSeq(<<>>)}
TupleInputs ==
    {DSeq(<<Ann, DU64(30)>>), DSeq(<<DU64(30), Ann>>), DSeq(<<Ann>>), DSeq(<<>>),
     DSeq(<<Ann, DU64(30), DU64(1)>>), DMap(<<>>)}
StructInputs ==
    {DMap(<<DEntry(DStr("age"), DU64(30)), DEntry(DStr("name"), Ann)>>),
     DMap(<<DEntry(DStr("name"), Ann), DEntry(DStr("age"), DU64(30))>>),
     DMap(<<DEntry(DStr("name"), Ann), DEntry(DStr("extra"), DU64(1))>>),
     DMap(<<DEntry(DStr("name"), Ann)>>),
     DMap(<<DEntry(DU64(1), Ann)>>),
     DMap(<<>>),
     DSeq(<<Ann, DU64(30)>>), DSeq(<<DU64(30), Ann>>), DSeq(<<Ann>>), DSeq(<<>>),
     DSeq(<<Ann, DU64(30), DU64(1)>>)}
EnumInputs ==
    {DSeq(<<DU64(1), DU64(30)>>), DSeq(<<DU64(0), DStr("x")>>),
     DSeq(<<DU64(5), DStr("x")>>), DSeq(<<DU64(2)>>), DSeq(<<DU64(3)>>),
     DSeq(<<DU64(4)>>), DSeq(<<DU64(0)>>), DSeq(<<Ann>>), DSeq(<<>>),
     DMap(<<DEntry(DStr("A"), DStr("x"))>>),
     DMap(<<DEntry(DStr("B"), DU64(30)), DEntry(DStr("A"), DStr("x"))>>),
     DMap(<<DEntry(DStr("Z"), DStr("x"))>>),
     DMap(<<DEntry(DStr("C"), DPrim("Unit", 0, ""))>>),
     DMap(<<DEntry(DStr("D"), DSeq(<<>>))>>),
     DMap(<<DEntry(DStr("F"), DMap(<<>>))>>),
     DMap(<<DEntry(DU64(1), DStr("x"))>>),
     DMap(<<DEntry(DStr("type"), DStr("A")), DEntry(DStr("t"), DStr("A")),
            DEntry(DStr("c"), DStr("x"))>>),
     DMap(<<>>)}

InputsOf(P) ==
    CASE P.kind = "Simple" -> {SampleOf(P.simple), DU64(30), Ann}
      [] P.kind = "Option" -> OptionInputs
      [] P.kind = "Seq" -> SeqInputs
      [] P.kind = "Map" -> MapInputs
      [] P.kind = "Tuple" -> TupleInputs
      [] P.kind = "Struct" -> StructInputs
      [] P.kind = "Enum" -> EnumInputs

Scenarios == UNION {{<<P, d>> : d \in InputsOf(P)} : P \in SimpleRoots \cup CompoundRoots}

RegIdle ==
    /\ graph = <<>>
    /\ items = <<>>
    /\ root = <<>>
    /\ rstack = <<>>
    /\ rstate = "idle"
    /\ lastAdd = NoAdd
    /\ apiAdds = 0

\* A decode starts as SchemaSeed::deserialize starts one: a SchemaDeserializer
\* at a schema position over an underlying deserializer.
Init ==
    /\ opts \in AllOptions
    /\ \E sc \in Scenarios : input = [schema |-> sc[1], data |-> sc[2]]
    /\ stack = <<SchemaDeserializer(input.schema, input.data)>>
    /\ result = Running
    /\ last = NoLast
    /\ ulog = <<>>
    /\ ureqs = 0
    /\ out = <<>>
    /\ decoder = <<>>
    /\ copy = <<>>
    /\ runs = <<>>
    /\ RegIdle

Next ==
    \/ \E m \in Methods, len \in TupleLens : Request(m, len)
    \/ NextElement
    \/ NextKey
    \/ NextValue
    \/ Finish

Spec == Init /\ [][Next]_vars

(***************************************************************************)
(* Decodes that share one schema and one configuration: one decode for     *)
(* each incoming message, their steps interleaved.                         *)
(***************************************************************************)
\* Calls one decode makes.
MaxRunCalls == 3

Runs == {1, 2}

Call(op, len) == [op |-> op, len |-> len]

\* What the decodes share: the schema position (with it the resolved table)
\* and the configuration.
Shared == [schema |-> input.schema, opts |-> opts]

\* What a step leaves of what it shares.  SchemaDeserializer and SchemaSeed
\* hold the schema, the table and the configuration by shared reference and
\* hand the same references on: nothing is written.
SharedAfterRemembers(shared, call) ==
    IF call.op = "deserialize_any"
    THEN [shared EXCEPT !.opts = [@ EXCEPT !.struct_format = "Tuple"]]
    ELSE shared
SharedAfter(shared, call) == shared

\* A decode as SchemaDeserializer::new starts it.
Start(schema, data) ==
    [stack |-> <<SchemaDeserializer(schema, data)>>, result |-> Running,
     ulog |-> <<>>, out |-> <<>>]

\* Whether the target can make the call.
CanCall(S, call) ==
    /\ S.result.st = "running"
    /\ S.stack # <<>>
    /\ CASE call.op \in Methods -> Last(S.stack).t = "SchemaDeserializer"
         [] call.op = "next_element_seed" -> Last(S.stack).t \in SeqCursors
         [] call.op \in {"next_key_seed", "next_value_seed"} -> Last(S.stack).t \in MapCursors
         [] call.op = "finish" -> Last(S.stack).t \in SeqCursors \cup MapCursors

\* One call of a target and what the engine does with it.
StepEffect(S, call, o) ==
    CASE call.op \in Methods -> RequestEffect(S, call.op, call.len, o)
      [] call.op = "next_element_seed" -> next_element_seed(S)
      [] call.op = "next_key_seed" -> next_key_seed(S)
      [] call.op = "next_value_seed" -> next_value_seed(S)
      [] call.op = "finish" -> Return(S)

\* Decode i takes one step while the other decodes are where they are.
RunStep(i, call) ==
    /\ runs # <<>>
    /\ Len(runs[i].trace) < MaxRunCalls
    /\ LET r == runs[i]
           S == [stack |-> r.stack, result |-> r.result, ulog |-> <<>>, out |-> r.out]
       IN  /\ CanCall(S, call)
           /\ LET E == StepEffect(S, call, opts)
                  after == SharedAfter(Shared, call)
              IN  /\ runs' = [runs EXCEPT ![i] = [r EXCEPT !.stack = E.stack,
                                                            !.result = E.result,
                                                            !.out = E.out,
                                                            !.trace = Append(@, call)]]
                  /\ opts' = after.opts
                  /\ input' = [input EXCEPT !.schema = after.schema]
    /\ UNCHANGED <<stack, result, last, ulog, ureqs, out, decoder, copy, regvars>>

\* The target of decode i calls deserializer.deserialize_*(visitor).
RunRequest(i, m) ==
    /\ m \in Methods
    /\ RunStep(i, Call(m, 0))

\* The visitor of decode i calls next_element_seed, next_key_seed,
\* next_value_seed, or returns its value.
RunNextElement(i) ==
    /\ i \in Runs
    /\ RunStep(i, Call("next_element_seed", 0))

RunNextKey(i) ==
    /\ i \in Runs
    /\ RunStep(i, Call("next_key_seed", 0))

RunNextValue(i) ==
    /\ i \in Runs
    /\ RunStep(i, Call("next_value_seed", 0))

RunFinish(i) ==
    /\ i \in Runs
    /\ RunStep(i, Call("finish", 0))

\* The schema the messages are decoded at, the messages, and the requests
\* their targets make.
SharedRoots == {Person, SeqSchema(Simple("U64"))}
Messages(P) ==
    IF P.kind = "Struct"
    THEN {DMap(<<DEntry(DStr("name"), Ann), DEntry(DStr("age"), DU64(30))>>),
          DMap(<<DEntry(DStr("name"), Ann), DEntry(DStr("extra"), DU64(1))>>),
          DSeq(<<Ann, DU64(30)>>)}
    ELSE {DSeq(<<DU64(1), DU64(30)>>), DSeq(<<Ann>>), DMap(<<>>)}
SharedMethods ==
    {"deserialize_any", "deserialize_struct", "deserialize_seq", "deserialize_u64",
     "deserialize_string"}

NewRun(shared, data) ==
    [data |-> data, given |-> shared, stack |-> Start(shared.schema, data).stack,
     result |-> Running, out |-> <<>>, trace |-> <<>>]

SharedInit ==
    /\ opts \in AllOptions
    /\ \E P \in SharedRoots : input = [schema |-> P, data |-> DMap(<<>>)]
    /\ \E d1 \in Messages(input.schema), d2 \in Messages(input.schema) :
          runs = <<NewRun(Shared, d1), NewRun(Shared, d2)>>
    /\ stack = <<>>
    /\ result = Running
    /\ last = NoLast
    /\ ulog = <<>>
    /\ ureqs = 0
    /\ out = <<>>
    /\ decoder = <<>>
    /\ copy = <<>>
    /\ RegIdle

SharedNext ==
    \E i \in Runs :
        \/ \E m \in SharedMethods : RunRequest(i, m)
        \/ RunNextElement(i)
        \/ RunNextKey(i)
        \/ RunNextValue(i)
        \/ RunFinish(i)

SpecShared == SharedInit /\ [][SharedNext]_vars

(***************************************************************************)
(* Registry claims                                                         *)
(***************************************************************************)
\* The types add_schema(t) reaches, t included.
RECURSIVE ReachFrom(_, _)
ReachFrom(frontier, seen) ==
    IF frontier \subseteq seen
    THEN seen
    ELSE LET new == frontier \ seen
         IN  ReachFrom(UNION {{graph[t][i] : i \in 1..Len(graph[t])} : t \in new},
                       seen \cup new)
Reach(t) == ReachFrom({t}, {})

\* A type that contains itself, directly or through other types.
SelfReferential(t) ==
    \E i \in 1..Len(graph[t]) : t \in Reach(graph[t][i])

\* C1: registering a self-referential type by describe()/add_schema terminates
\* (the recursion never exhausts the call stack) and, when describe() returns,
\* the Description holds exactly one entry per distinct registered name reached
\* by the walk.
C1_RegistrationTerminates ==
    /\ rstate # "overflow"
    /\ (rstate = "done" /\ apiAdds = 0) =>
          DOMAIN items = {schema_name(t) : t \in Reach(root[1]) \cap NamedIds}

\* The part of C1 the code keeps: a walk that returns leaves one entry per
\* registered name it reached, each holding that type's schema.
RegistryOneEntryPerName ==
    (rstate = "done" /\ apiAdds = 0) =>
        /\ DOMAIN items = {schema_name(t) : t \in Reach(root[1]) \cap NamedIds}
        /\ \A t \in Reach(root[1]) \cap NamedIds : items[schema_name(t)] = SchemaOf(t)

\* A walk over types none of which is self-referential returns.
RegistryAcyclicTerminates ==
    (rstate = "overflow") => \E t \in Reach(root[1]) : SelfReferential(t)

\* C2: Description::add is insert-if-absent.  If the name was a key, the items
\* map is unchanged and the schema constructor did not run; if it was absent,
\* exactly that entry is added, with the supplied schema, and no other entry
\* changes.
C2_AddInsertIfAbsent ==
    lastAdd.name # "" =>
        LET b == lastAdd.before
            n == lastAdd.name
        IN  /\ lastAdd.ran = (n \notin DOMAIN b)
            /\ n \in DOMAIN b => (DOMAIN items = DOMAIN b /\ \A m \in DOMAIN b : items[m] = b[m])
            /\ n \notin DOMAIN b =>
                  /\ DOMAIN items = DOMAIN b \cup {n}
                  /\ items[n] = lastAdd.schema
                  /\ \A m \in DOMAIN b : items[m] = b[m]

\* An add of a different schema under a name already registered, beside
\* another entry.
C2_Witness ==
    /\ lastAdd.name \in DOMAIN lastAdd.before
    /\ lastAdd.before[lastAdd.name] # lastAdd.schema
    /\ Cardinality(DOMAIN lastAdd.before) = 2
    /\ ~lastAdd.ran

(***************************************************************************)
(* Decoder claims: primitive requests                                      *)
(***************************************************************************)
\* The last request was forwarded to the underlying decoder.
Forwarded == ulog # <<>>
\* The decode failed with the engine's own type-mismatch error.
TypeMismatch == result.st = "err" /\ result.msg = "invalid type"

IntKinds == {"I8", "I16", "I32", "I64", "I128", "U8", "U16", "U32", "U64", "U128"}
Signed(k) == k \in {"I8", "I16", "I32", "I64", "I128"}
Bits(k) ==
    CASE k \in {"I8", "U8"} -> 8
      [] k \in {"I16", "U16"} -> 16
      [] k \in {"I32", "U32"} -> 32
      [] k \in {"I64", "U64"} -> 64
      [] k \in {"I128", "U128"} -> 128
\* The integer kind each integer request asks for.
RequestedInt ==
    [deserialize_i8 |-> "I8", deserialize_i16 |-> "I16", deserialize_i32 |-> "I32",
     deserialize_i64 |-> "I64", deserialize_i128 |-> "I128",
     deserialize_u8 |-> "U8", deserialize_u16 |-> "U16", deserialize_u32 |-> "U32",
     deserialize_u64 |-> "U64", deserialize_u128 |-> "U128"]
IntMethods == DOMAIN RequestedInt

\* C3: integer widening is exact.  A request for an integer of width W and
\* signedness S is forwarded to the underlying decoder if and only if the
\* schema position is a Simple integer kind of signedness S and width <= W;
\* at every other position it fails with a type mismatch and nothing is
\* forwarded.
C3_IntegerWidening ==
    \A m \in IntMethods :
        last.op = m =>
            LET P == last.frame.schema
                k == RequestedInt[m]
                fits == /\ P.kind = "Simple"
                        /\ P.simple \in IntKinds
                        /\ Signed(P.simple) = Signed(k)
                        /\ Bits(P.simple) <= Bits(k)
            IN  /\ fits <=> Forwarded
                /\ fits => ~TypeMismatch /\ ulog[1].call \in IntMethods
                /\ ~fits => TypeMismatch

\* A 64-bit signed request at a 16-bit signed position was forwarded and
\* decoded.
C3_Witness ==
    /\ last.op = "deserialize_i64"
    /\ last.frame.schema = Simple("I16")
    /\ Forwarded
    /\ result.st = "ok"

\* C4: float widening.  A 64-bit float request is forwarded iff the position
\* is Simple F32 or Simple F64, a 32-bit float request iff it is Simple F32;
\* every other position fails with a type mismatch.
C4_FloatWidening ==
    /\ last.op = "deserialize_f64" =>
          LET P == last.frame.schema
              fits == P = Simple("F32") \/ P = Simple("F64")
          IN  /\ fits <=> Forwarded
              /\ fits => ~TypeMismatch
              /\ ~fits => TypeMismatch
    /\ last.op = "deserialize_f32" =>
          LET P == last.frame.schema
              fits == P = Simple("F32")
          IN  /\ fits <=> Forwarded
              /\ fits => ~TypeMismatch
              /\ ~fits => TypeMismatch

\* A 64-bit float request at a 32-bit float position was forwarded and decoded.
C4_Witness ==
    /\ last.op = "deserialize_f64"
    /\ last.frame.schema = Simple("F32")
    /\ Forwarded
    /\ result.st = "ok"

\* The Simple kind each exact-kind request asks for.
ExactKind ==
    [deserialize_unit |-> "Unit", deserialize_bool |-> "Bool",
     deserialize_char |-> "Char", deserialize_str |-> "String",
     deserialize_string |-> "String", deserialize_bytes |-> "Bytes",
     deserialize_byte_buf |-> "Bytes"]

\* The kind of a schema position as the mismatch error names it.
ActualKind(P) ==
    CASE P.kind = "Simple" -> [e |-> "Simple", s |-> P.simple, name |-> "", n |-> -1]
      [] P.kind = "Tuple" -> [e |-> "Tuple", s |-> "", name |-> "", n |-> Len(P.values)]
      [] P.kind \in {"Struct", "Enum"} ->
             [e |-> P.kind, s |-> "", name |-> P.name, n |-> -1]
      [] OTHER -> [e |-> P.kind, s |-> "", name |-> "", n |-> -1]

\* C5: a unit, bool, char, str/string or bytes/byte_buf request is forwarded
\* iff the schema position is exactly that Simple kind; at any other position
\* it fails with a type mismatch that names the position's actual kind and the
\* requested kind.
C5_ExactKindPrimitives ==
    \A m \in DOMAIN ExactKind :
        last.op = m =>
            LET P == last.frame.schema
                exact == P = Simple(ExactKind[m])
            IN  /\ exact <=> Forwarded
                /\ exact => ~TypeMismatch
                /\ ~exact =>
                      /\ TypeMismatch
                      /\ result.found = ActualKind(P)
                      /\ result.expected =
                            [e |-> "Simple", s |-> ExactKind[m], name |-> "", n |-> -1]

\* A bool request at a struct position failed naming the struct and bool.
C5_Witness ==
    /\ last.op = "deserialize_bool"
    /\ last.frame.schema.kind = "Struct"
    /\ TypeMismatch
    /\ result.found.e = "Struct"
    /\ result.found.name = "Person"
    /\ result.expected.s = "Bool"

\* C6: an option request never fails with a type mismatch.  At an Option
\* position the underlying decoder's option protocol is used, and a present
\* value is handed on at the inner schema position; at any other position the
\* value is handed on as present at the same, unchanged position and the
\* underlying decoder is not asked.
C6_OptionNeverMismatch ==
    last.op = "deserialize_option" =>
        LET P == last.frame.schema
        IN  /\ ~TypeMismatch
            /\ P.kind = "Option" =>
                  /\ ulog = <<UCall("deserialize_option", 0)>>
                  /\ last.frame.data.k # "None" =>
                        /\ Len(out) = last.obefore + 1
                        /\ Last(out) = Ev("some")
                        /\ Len(stack) = last.depth
                        /\ Last(stack).t = "SchemaDeserializer"
                        /\ Last(stack).schema = P.value
                        /\ Last(stack).data = last.frame.data
                  /\ last.frame.data.k = "None" =>
                        /\ Last(out) = Ev("none")
                        /\ Len(stack) = last.depth - 1
            /\ P.kind # "Option" =>
                  /\ ~Forwarded
                  /\ result.st = "running"
                  /\ Len(out) = last.obefore + 1
                  /\ Last(out) = Ev("some")
                  /\ Len(stack) = last.depth
                  /\ Last(stack) = last.frame

\* An option request at Option(String) over a present value, then a second
\* option request at the inner String position: both handed on as present.
C6_Witness ==
    /\ last.op = "deserialize_option"
    /\ input.schema = OptionSchema(Simple("String"))
    /\ last.frame.schema = Simple("String")
    /\ out = <<Ev("some"), Ev("some")>>
    /\ Last(stack) = last.frame

(***************************************************************************)
(* Decoder claims: structs and enums                                       *)
(***************************************************************************)
\* Positions in a list of fields or variants that carry the name.
Named(list, name) == {i \in 1..Len(list) : list[i].name = name}
First(set) == CHOOSE i \in set : \A j \in set : i <= j

\* Requests that reach the struct and enum visitors.
StructRequests == {"deserialize_struct", "deserialize_any", "deserialize_ignored_any"}
EnumRequests == {"deserialize_enum", "deserialize_any", "deserialize_ignored_any"}

\* C7: struct in Map representation.  Every string key read from the input is
\* matched by exact name against the declared fields, whatever the order of
\* the input's keys; the value after a matched key is decoded at that field's
\* schema; a key that is no declared field's name fails the decode with
\* "unknown field".
C7_StructMapByName ==
    /\ (/\ last.op \in StructRequests
        /\ last.frame.schema.kind = "Struct"
        /\ opts.struct_format = "Map"
        /\ last.frame.data.k = "Map") =>
           /\ Last(stack).t = "MapStructAccess"
           /\ Last(stack).fields = last.frame.schema.fields
           /\ Last(stack).rest = last.frame.data.entries
    /\ (/\ last.op = "next_key_seed"
        /\ last.frame.t = "MapStructAccess"
        /\ last.frame.rest # <<>>
        /\ last.frame.rest[1].key.k = "String") =>
           LET key == last.frame.rest[1].key.s
               fields == last.frame.fields
               at == Named(fields, key)
           IN  /\ at = {} =>
                     /\ result.st = "err"
                     /\ result.msg = "unknown field"
                     /\ stack = <<>>
               /\ at # {} =>
                     /\ result.st = "running"
                     /\ Last(out) = EvKey(key)
                     /\ Last(stack).t = "MapStructAccess"
                     /\ Last(stack).fields = fields
                     /\ Last(stack).value = <<fields[First(at)].value>>
                     /\ Last(stack).pend = <<last.frame.rest[1].val>>
                     /\ Last(stack).rest = Tail(last.frame.rest)
    /\ (/\ last.op = "next_value_seed"
        /\ last.frame.t = "MapStructAccess"
        /\ last.frame.value # <<>>
        /\ last.frame.pend # <<>>) =>
           Last(stack) = SchemaDeserializer(last.frame.value[1], last.frame.pend[1])

\* {"age": 30, "name": "Ann"} decoded at fields [name: String, age: U64]: each
\* value was read under its key, in the input's order.
C7_Witness ==
    /\ opts.struct_format = "Map"
    /\ input.schema = Person
    /\ result.st = "ok"
    /\ out = <<Ev("map"), EvKey("age"), EvVisit(DU64(30)),
               EvKey("name"), EvVisit(DStr("Ann"))>>

\* C8: struct in Tuple representation, selected by the options and not by the
\* schema.  The i-th key handed to the target is the i-th declared field's
\* name, and the i-th value is decoded from the i-th input slot at the i-th
\* declared field's schema; a slot whose value is not of its field's kind
\* ([30, "Ann"] for [name: String, age: U64]) fails with a type mismatch.
C8_StructTuplePositional ==
    /\ (/\ last.op \in StructRequests
        /\ last.frame.schema.kind = "Struct"
        /\ opts.struct_format = "Tuple") =>
           /\ ulog[1] = UCall("deserialize_tuple", Len(last.frame.schema.fields))
           /\ last.frame.data.k = "Seq" =>
                 /\ Last(out) = Ev("map")
                 /\ Last(stack) = TupleStructAccess(last.frame.schema.fields, <<>>,
                                                    last.frame.data.elems)
    /\ (last.frame.t = "TupleStructAccess" /\ last.depth = 1) =>
           LET fields == input.schema.fields
               elems == input.data.elems
               keys == Len(fields) - Len(last.frame.fields)
               slots == Len(elems) - Len(last.frame.rest)
           IN  /\ opts.struct_format = "Tuple"
               /\ (last.op = "next_key_seed" /\ keys < Len(fields)) =>
                     /\ Last(out) = EvKey(fields[keys + 1].name)
                     /\ Last(stack).value = <<fields[keys + 1].value>>
                     /\ Last(stack).rest = last.frame.rest
                     /\ ~Forwarded
               /\ (last.op = "next_key_seed" /\ keys = Len(fields)) =>
                     Last(out) = Ev("end")
               /\ (/\ last.op = "next_value_seed"
                   /\ last.frame.value # <<>>
                   /\ slots = keys - 1
                   /\ slots < Len(elems)) =>
                     Last(stack) = SchemaDeserializer(fields[keys].value, elems[keys])
    /\ (/\ last.op \in Methods \ {"deserialize_option", "deserialize_newtype_struct"}
        /\ last.depth = 2
        /\ input.schema.kind = "Struct"
        /\ opts.struct_format = "Tuple"
        /\ last.frame.schema.kind = "Simple"
        /\ last.frame.data.k # last.frame.schema.simple) =>
           /\ result.st = "err"
           /\ result.msg \in {"invalid type", "underlying: invalid type"}
           /\ Len(out) = last.obefore

\* ["Ann", 30] decoded positionally at fields [name: String, age: U64].
C8_Witness ==
    /\ opts.struct_format = "Tuple"
    /\ input.schema = Person
    /\ result.st = "ok"
    /\ out = <<Ev("map"), EvKey("name"), EvVisit(DStr("Ann")),
               EvKey("age"), EvVisit(DU64(30))>>

\* C9: enum in Tuple representation.  The index read first selects the variant
\* at that position of the declared variants, counted from zero in declaration
\* order; an index >= the number of variants fails with "invalid variant" and
\* no payload is decoded.
C9_EnumTupleIndex ==
    (/\ last.op \in EnumRequests
     /\ last.frame.schema.kind = "Enum"
     /\ opts.enum_format = "Tuple"
     /\ last.frame.data.k = "Seq"
     /\ last.frame.data.elems # <<>>
     /\ last.frame.data.elems[1].k = "U64") =>
        LET elems == last.frame.data.elems
            index == elems[1].n
            variants == last.frame.schema.variants
        IN  /\ index >= Len(variants) =>
                  /\ result.st = "err"
                  /\ result.msg = "invalid variant"
                  /\ stack = <<>>
                  /\ Len(out) = last.obefore
                  /\ ulog = <<UCall("deserialize_tuple", 2), UCall("next_element_seed", 0),
                              UCall("deserialize_u64", 0)>>
            /\ index < Len(variants) =>
                  /\ ~(result.st = "err" /\ result.msg = "invalid variant")
                  /\ variants[index + 1].shape = "Newtype" =>
                        /\ Last(out) = Ev("map")
                        /\ Last(stack) = TupleEnumAccess(<<variants[index + 1].name>>,
                                                         <<variants[index + 1].value>>,
                                                         Tail(elems))

\* [1, 30] selected the second declared variant, B, and its payload followed.
C9_Witness ==
    /\ last.op = "deserialize_enum"
    /\ opts.enum_format = "Tuple"
    /\ last.frame.data = DSeq(<<DU64(1), DU64(30)>>)
    /\ Last(stack).t = "TupleEnumAccess"
    /\ Last(stack).tag = <<"B">>
    /\ Last(stack).rest = <<DU64(30)>>

\* C10: enum in Map representation, ExternallyTagged.  One string key is read
\* and matched by exact name against the declared variants; a Newtype
\* variant's payload is decoded at the variant's declared schema and exposed
\* under the variant's name; a key that is no declared variant's name fails
\* with "invalid variant".
C10_EnumExternallyTagged ==
    /\ (/\ last.op \in EnumRequests
        /\ last.frame.schema.kind = "Enum"
        /\ last.frame.schema.repr.repr = "ExternallyTagged"
        /\ opts.enum_format = "Map"
        /\ last.frame.data.k = "Map"
        /\ last.frame.data.entries # <<>>
        /\ last.frame.data.entries[1].key.k = "String") =>
           LET entries == last.frame.data.entries
               key == entries[1].key.s
               variants == last.frame.schema.variants
               at == Named(variants, key)
           IN  /\ ulog = <<UCall("deserialize_map", 0), UCall("next_key_seed", 0),
                           UCall("deserialize_string", 0)>>
               /\ at = {} =>
                     /\ result.st = "err"
                     /\ result.msg = "invalid variant"
                     /\ stack = <<>>
                     /\ Len(out) = last.obefore
               /\ at # {} =>
                     /\ ~(result.st = "err" /\ result.msg = "invalid variant")
                     /\ variants[First(at)].shape = "Newtype" =>
                           /\ Last(out) = Ev("map")
                           /\ Last(stack) =
                                 ExternallyTaggedEnumAccess(<<key>>,
                                                            <<variants[First(at)].value>>,
                                                            Tail(entries),
                                                            <<entries[1].val>>)
    /\ (last.frame.t = "ExternallyTaggedEnumAccess" /\ last.op = "next_key_seed") =>
           /\ ~Forwarded
           /\ Last(stack).tag = <<>>
           /\ Last(out) = IF last.frame.tag = <<>> THEN Ev("end")
                          ELSE EvKey(last.frame.tag[1])
    /\ (/\ last.frame.t = "ExternallyTaggedEnumAccess"
        /\ last.op = "next_value_seed"
        /\ last.frame.value # <<>>
        /\ last.frame.pend # <<>>) =>
           Last(stack) = SchemaDeserializer(last.frame.value[1], last.frame.pend[1])

\* {"A": "x"} decoded as variant A with payload "x".
C10_Witness ==
    /\ opts.enum_format = "Map"
    /\ input.schema = EnumE
    /\ input.data = DMap(<<DEntry(DStr("A"), DStr("x"))>>)
    /\ result.st = "ok"
    /\ out = <<Ev("map"), EvKey("A"), EvVisit(DStr("x"))>>

(***************************************************************************)
(* Decoder claims: variant shapes, tagged representations                  *)
(***************************************************************************)
\* The variant an enum request at (schema, data) selects under options o: by
\* index in Tuple representation, by name in Map representation; <<>> if the
\* input selects none.
SelectedVariant(schema, data, o) ==
    IF o.enum_format = "Tuple"
    THEN IF /\ data.k = "Seq"
            /\ data.elems # <<>>
            /\ data.elems[1].k = "U64"
            /\ data.elems[1].n < Len(schema.variants)
         THEN <<schema.variants[data.elems[1].n + 1]>>
         ELSE <<>>
    ELSE IF /\ data.k = "Map"
            /\ data.entries # <<>>
            /\ data.entries[1].key.k = "String"
            /\ Named(schema.variants, data.entries[1].key.s) # {}
         THEN <<schema.variants[First(Named(schema.variants, data.entries[1].key.s))]>>
         ELSE <<>>

\* C11: whatever the shape of the selected variant (Unit, Newtype, Tuple,
\* Struct), selecting it by index (Tuple representation) or by name (Map
\* representation, ExternallyTagged) exposes its payload as a keyed cursor
\* keyed by the variant's name; no selectable shape makes the engine abort.
C11_NoVariantShapeAborts ==
    (/\ last.op \in EnumRequests
     /\ last.frame.schema.kind = "Enum"
     /\ (opts.enum_format = "Tuple" \/ last.frame.schema.repr.repr = "ExternallyTagged")) =>
        LET variant == SelectedVariant(last.frame.schema, last.frame.data, opts)
        IN  /\ result.st # "panic"
            /\ variant # <<>> =>
                  /\ result.st = "running"
                  /\ Last(out) = Ev("map")
                  /\ Last(stack).t \in {"TupleEnumAccess", "ExternallyTaggedEnumAccess"}
                  /\ Last(stack).tag = <<variant[1].name>>

\* C12: enum in Map representation, InternallyTagged{tag} or
\* AdjacentlyTagged{tag, content}.  The variant is selected by the value of the
\* tag field read from the map; internally tagged, the payload is the other
\* fields of the same map, adjacently tagged it is the value of the content
\* entry; through the enum request and through the catch-all request alike.
C12_TaggedEnumSelectsByTagField ==
    (/\ last.op \in EnumRequests
     /\ last.frame.schema.kind = "Enum"
     /\ last.frame.schema.repr.repr \in {"InternallyTagged", "AdjacentlyTagged"}
     /\ opts.enum_format = "Map"
     /\ last.frame.data.k = "Map") =>
        LET repr == last.frame.schema.repr
            variants == last.frame.schema.variants
            entries == last.frame.data.entries
            tagged == {i \in 1..Len(entries) : entries[i].key = DStr(repr.tag)}
        IN  (/\ tagged # {}
             /\ entries[First(tagged)].val.k = "String"
             /\ Named(variants, entries[First(tagged)].val.s) # {}) =>
                LET name == entries[First(tagged)].val.s
                    held == {i \in 1..Len(entries) : entries[i].key = DStr(repr.content)}
                    others == {i \in 1..Len(entries) : i # First(tagged)}
                IN  /\ result.st = "running"
                    /\ Last(out) = Ev("map")
                    /\ Last(stack).tag = <<name>>
                    /\ Last(stack).value = <<variants[First(Named(variants, name))].value>>
                    /\ repr.repr = "InternallyTagged" =>
                          /\ Len(Last(stack).pend) = 1
                          /\ Last(stack).pend[1].k = "Map"
                          /\ Len(Last(stack).pend[1].entries) = Cardinality(others)
                          /\ \A i \in others :
                                \E j \in 1..Len(Last(stack).pend[1].entries) :
                                    Last(stack).pend[1].entries[j] = entries[i]
                    /\ (repr.repr = "AdjacentlyTagged" /\ held # {}) =>
                          Last(stack).pend = <<entries[First(held)].val>>

(***************************************************************************)
(* Decoder claims: sequences, maps, tuples, the catch-all request          *)
(***************************************************************************)
\* The last request was accepted iff `fits`, and failed with the engine's type
\* mismatch otherwise.
AcceptedIff(fits) ==
    /\ fits <=> Forwarded
    /\ fits => ~TypeMismatch
    /\ ~fits => TypeMismatch

\* C13: a sequence, map or tuple request is accepted iff the schema position
\* is Seq, Map or Tuple respectively, else it is a type mismatch.  Once
\* accepted, every element of a sequence is decoded at the Seq's element
\* schema, every key and value of a map at the Map's key and value schemas,
\* and the i-th element of a tuple at the Tuple's i-th schema.
C13_SeqMapTuplePositions ==
    /\ last.op = "deserialize_seq" =>
          LET P == last.frame.schema
          IN  /\ AcceptedIff(P.kind = "Seq")
              /\ (P.kind = "Seq" /\ last.frame.data.k = "Seq") =>
                    Last(stack) = SchemaSeqAccess(P.value, last.frame.data.elems)
    /\ last.op = "deserialize_map" =>
          LET P == last.frame.schema
          IN  /\ AcceptedIff(P.kind = "Map")
              /\ (P.kind = "Map" /\ last.frame.data.k = "Map") =>
                    Last(stack) = SchemaMapAccess(P.key, P.value,
                                                  last.frame.data.entries, <<>>)
    /\ last.op \in {"deserialize_tuple", "deserialize_tuple_struct"} =>
          LET P == last.frame.schema
          IN  /\ AcceptedIff(P.kind = "Tuple")
              /\ (P.kind = "Tuple" /\ last.frame.data.k = "Seq") =>
                    Last(stack) = TupleSeqAccess(P.values, last.frame.data.elems)
    /\ (/\ last.op = "next_element_seed"
        /\ last.frame.t = "SchemaSeqAccess"
        /\ last.frame.rest # <<>>) =>
          /\ Last(stack) = SchemaDeserializer(last.frame.schema, last.frame.rest[1])
          /\ stack[Len(stack) - 1] = [last.frame EXCEPT !.rest = Tail(@)]
    /\ (/\ last.op = "next_key_seed"
        /\ last.frame.t = "SchemaMapAccess"
        /\ last.frame.rest # <<>>) =>
          /\ Last(stack) = SchemaDeserializer(last.frame.key, last.frame.rest[1].key)
          /\ stack[Len(stack) - 1].key = last.frame.key
          /\ stack[Len(stack) - 1].value = last.frame.value
          /\ stack[Len(stack) - 1].pend = <<last.frame.rest[1].val>>
    /\ (/\ last.op = "next_value_seed"
        /\ last.frame.t = "SchemaMapAccess"
        /\ last.frame.pend # <<>>) =>
          Last(stack) = SchemaDeserializer(last.frame.value, last.frame.pend[1])
    /\ (/\ last.op = "next_element_seed"
        /\ last.frame.t = "TupleSeqAccess"
        /\ last.depth = 1
        /\ last.frame.values # <<>>
        /\ last.frame.rest # <<>>) =>
          LET i == Len(input.schema.values) - Len(last.frame.values) + 1
          IN  /\ i = Len(input.data.elems) - Len(last.frame.rest) + 1
              /\ Last(stack) = SchemaDeserializer(input.schema.values[i],
                                                  input.data.elems[i])

\* {"a": 1} decoded at Map(String, U64): the key as a string, the value as a
\* u64.
C13_Witness ==
    /\ input.schema = MapSchema(Simple("String"), Simple("U64"))
    /\ result.st = "ok"
    /\ out = <<Ev("map"), EvVisit(DStr("a")), EvVisit(DU64(1))>>

\* The underlying request for each Simple kind other than String and Bytes.
RequestFor ==
    [Unit |-> "deserialize_unit", Bool |-> "deserialize_bool",
     U8 |-> "deserialize_u8", U16 |-> "deserialize_u16", U32 |-> "deserialize_u32",
     U64 |-> "deserialize_u64", U128 |-> "deserialize_u128",
     I8 |-> "deserialize_i8", I16 |-> "deserialize_i16", I32 |-> "deserialize_i32",
     I64 |-> "deserialize_i64", I128 |-> "deserialize_i128",
     F32 |-> "deserialize_f32", F64 |-> "deserialize_f64",
     Char |-> "deserialize_char"]

\* The typed request that corresponds to the kind of a schema position; string
\* and bytes are borrowed or owned by the borrowing flag.
TypedRequest(P, o) ==
    CASE P.kind = "Simple" /\ P.simple = "String" ->
             IF o.borrowing THEN "deserialize_str" ELSE "deserialize_string"
      [] P.kind = "Simple" /\ P.simple = "Bytes" ->
             IF o.borrowing THEN "deserialize_bytes" ELSE "deserialize_byte_buf"
      [] P.kind = "Simple" /\ P.simple \notin {"String", "Bytes"} -> RequestFor[P.simple]
      [] P.kind = "Option" -> "deserialize_option"
      [] P.kind = "Seq" -> "deserialize_seq"
      [] P.kind = "Map" -> "deserialize_map"
      [] P.kind = "Tuple" -> "deserialize_tuple"
      [] P.kind = "Struct" -> "deserialize_struct"
      [] P.kind = "Enum" -> "deserialize_enum"

\* C14: the catch-all request dispatches on the kind of the schema position
\* alone.  At a Simple position it issues exactly the underlying request for
\* that kind; at an Option, Seq, Map, Tuple, Struct or Enum position it does
\* what the typed request for that kind does at that position: the same
\* underlying request, the same nested schema positions, the same outcome.
C14_CatchAllAsTyped ==
    [][last'.op = "deserialize_any" =>
          LET P == Last(stack).schema
              typed == RequestEffect(Cur, TypedRequest(P, opts), 0, opts)
          IN  /\ stack' = typed.stack
              /\ result' = typed.result
              /\ ulog' = typed.ulog
              /\ out' = typed.out
              /\ P.kind = "Simple" => ulog'[1] = UCall(TypedRequest(P, opts), 0)]_vars

\* The failures of a decode.
Failures ==
    {"invalid type", "unknown field", "invalid variant", "missing tag",
     "invalid use of next_value_seed", "underlying: invalid type"}

\* The step that just happened met a failure of the given kind.
MismatchedRequest ==
    /\ last.op \in Methods
    /\ Dispatch(last.op, last.len, last.frame.schema, opts).o = "err"

UnknownField ==
    /\ last.op = "next_key_seed"
    /\ last.frame.t = "MapStructAccess"
    /\ last.frame.rest # <<>>
    /\ last.frame.rest[1].key.k = "String"
    /\ Named(last.frame.fields, last.frame.rest[1].key.s) = {}

CursorMisuse ==
    /\ last.op = "next_value_seed"
    /\ last.frame.t \in {"TupleStructAccess", "MapStructAccess"}
    /\ last.frame.value = <<>>

UnderlyingRefuses ==
    /\ last.op \in Methods
    /\ LET d == Dispatch(last.op, last.len, last.frame.schema, opts)
       IN  /\ d.o = "fwd"
           /\ d.call # "deserialize_option"
           /\ last.frame.data.k # UKindOf(d.call)

\* A failed decode: the error is the result, nothing is left to call, the
\* failing step delivered nothing to the target.
Failed ==
    /\ result.st = "err"
    /\ result.msg \in Failures
    /\ stack = <<>>
    /\ Len(out) = last.obefore

\* C15: every failure is terminal.  A type mismatch, an unknown field, an
\* invalid variant, a missing tag, a misuse of a cursor and an error of the
\* underlying decoder each end the decode in the step that meets them: the
\* engine issues no underlying request after the failing one, does not skip the
\* offending entry or try again, and the error is the result; nothing changes
\* afterwards.
C15_FailuresTerminal ==
    /\ [](/\ result.st = "err" => Failed
          /\ MismatchedRequest => Failed /\ TypeMismatch /\ ulog = <<>>
          /\ UnknownField =>
                /\ Failed
                /\ result.msg = "unknown field"
                /\ ulog = <<UCall("next_key_seed", 0), UCall("deserialize_string", 0)>>
          /\ CursorMisuse =>
                /\ Failed
                /\ result.msg = "invalid use of next_value_seed"
                /\ ulog = <<>>
          /\ UnderlyingRefuses =>
                /\ Failed
                /\ result.msg = "underlying: invalid type"
                /\ Len(ulog) = 1
          /\ result.st = "err" /\ result.msg \in {"invalid variant", "missing tag"} =>
                /\ Len(ulog) \in {2, 3}
                /\ Last(ulog).call \in {"next_element_seed", "next_key_seed",
                                        "deserialize_u64", "deserialize_string"})
    /\ [][result.st = "err" => UNCHANGED <<stack, result, ureqs, out>>]_vars

C15_Witness ==
    /\ UnknownField
    /\ result = Custom("unknown field")
    /\ stack = <<>>
    /\ out = <<Ev("map"), EvKey("name")>>

(***************************************************************************)
(* Claims about the Description handed to the decoder                      *)
(***************************************************************************)
\* C18: SchemaDecoder::new completes for every completed Description.  The
\* table it yields has one entry for each name registered in the Description
\* and no other; its root is the inline resolved schema when the Description's
\* root is inline and the root name when it is a name; SchemaDeserializer::new
\* then starts at the schema the root resolves to.
C18_DecoderTable ==
    decoder # <<>> =>
        LET dec == decoder[1]
        IN  /\ dec.st = "ok"
            /\ DOMAIN dec.items = DOMAIN dec.of.items
            /\ dec.schema.item = (IF dec.of.schema.item = "Schema" THEN "Decode" ELSE "Named")
            /\ dec.of.schema.item = "Named" => dec.schema.name = dec.of.schema.name
            /\ SchemaDeserializer_new(dec).st = "ok"

\* C19: a Description round-trips through its serialized form.  Reading back
\* what was written completes and yields a Description equal to the original:
\* the same root, the same entries under the same names; a SchemaName is
\* written as its base followed by its arguments between "<" and ">",
\* separated by ", ", and is parsed back from that.
C19_DescriptionRoundTrip ==
    copy # <<>> =>
        /\ copy[1].back.st = "ok"
        /\ copy[1].back.descr = copy[1].of
        /\ \A e \in copy[1].wire.items :
              e.name \in {<<"S">>, <<"T", "<", "S", ", ", "P", ">">>}

(***************************************************************************)
(* Claims about the mismatch error                                         *)
(***************************************************************************)
StructuralRequests ==
    {"deserialize_seq", "deserialize_tuple", "deserialize_tuple_struct",
     "deserialize_map", "deserialize_struct", "deserialize_enum"}

RequestedKind ==
    [deserialize_seq |-> "Seq", deserialize_tuple |-> "Tuple",
     deserialize_tuple_struct |-> "Tuple", deserialize_map |-> "Map",
     deserialize_struct |-> "Struct", deserialize_enum |-> "Enum"]

RECURSIVE Replay(_, _, _)
Replay(S, trace, o) ==
    IF trace = <<>>
    THEN S
    ELSE Replay(StepEffect([S EXCEPT !.ulog = <<>>], trace[1], o), Tail(trace), o)
Alone(r) == Replay(Start(r.given.schema, r.data), r.trace, r.given.opts)

DescribedItems(t) == [n \in Reach(t) \cap NamedIds |-> SchemaOf(n)]

\* C21: passthrough wrappers are transparent.  A wrapper has the schema_name
\* and the schema of the type it contains, and describe() of the wrapper is
\* describe() of that type: the same root and the same entries, the wrapper
\* itself registering nothing.
C21_WrappersTransparent ==
    /\ \A w \in WrapperIds :
          /\ schema_name(w) = schema_name(Content[w])
          /\ SchemaOf(w) = SchemaOf(Content[w])
          /\ RootItem(w) = RootItem(Content[w])
    /\ (rstate \in {"walking", "done"} /\ root[1] \in WrapperIds) =>
          /\ DOMAIN items \subseteq NamedIds
          /\ \A n \in DOMAIN items : n \in Reach(Content[root[1]]) /\ items[n] = SchemaOf(n)
    /\ (rstate = "done" /\ root[1] \in WrapperIds) =>
          /\ items = DescribedItems(Content[root[1]])
          /\ TheDescription = [schema |-> RootItem(Content[root[1]]),
                               items |-> DescribedItems(Content[root[1]])]

C21_Witness ==
    /\ rstate = "done"
    /\ root = <<"WT">>
    /\ DOMAIN items = {"S", "T"}

\* describe() of a type that is no wrapper registers DescribedItems of it.
DescribeRegistersReach ==
    (rstate = "done" /\ apiAdds = 0 /\ root[1] \in TypeIds) => items = DescribedItems(root[1])

(***************************************************************************)
(* Claims about missing input and cursor misuse                            *)
(***************************************************************************)
\* The decode is of a struct in Map representation, from a map that lacks a
\* declared field.
KeysOf(entries) == {entries[i].key.s : i \in {j \in 1..Len(entries) : entries[j].key.k = "String"}}
LacksField ==
    /\ input.schema.kind = "Struct"
    /\ opts.struct_format = "Map"
    /\ input.data.k = "Map"
    /\ \E i \in 1..Len(input.schema.fields) :
          input.schema.fields[i].name \notin KeysOf(input.data.entries)

\* The values the default-value slots of a struct schema hold.
Defaults(P) == {P.fields[i].default[1] : i \in {j \in 1..Len(P.fields) : P.fields[j].default # <<>>}}

KeyedCursors ==
    {"TupleStructAccess", "MapStructAccess", "TupleEnumAccess", "ExternallyTaggedEnumAccess"}
EnumCursors == {"TupleEnumAccess", "ExternallyTaggedEnumAccess"}

\* No successful key request is waiting for its value at the cursor f: none
\* was made since the last value request, or (enum cursors, whose one key is
\* the variant name held in tag) none was made at all.
Unpaired(f) ==
    IF f.t \in EnumCursors
    THEN f.tag # <<>> \/ f.value = <<>>
    ELSE f.value = <<>>

\* C23: cursor misuse is reported, not acted on.  On each keyed cursor
\* (tuple-struct, map-struct, tuple-enum, externally-tagged-enum) a value
\* request that is not preceded by its paired successful key request, a second
\* value request after one key included, returns the error "invalid use of
\* next_value_seed" and reads nothing from the underlying cursor.
C23_CursorMisuseReported ==
    (last.op = "next_value_seed" /\ last.frame.t \in KeyedCursors /\ Unpaired(last.frame)) =>
        /\ result = InvalidUse
        /\ ulog = <<>>
        /\ Len(out) = last.obefore

\* C24: running out of input is an error, never a silently absent value.  An
\* enum whose input ends before the tag (the empty tuple in Tuple
\* representation, the empty map in Map representation) fails with "missing
\* tag"; a tuple-represented enum or struct whose input ends before a required
\* payload or field value fails with an error, and nothing is handed to the
\* target in place of the value.
C24_OutOfInputIsError ==
    /\ (/\ last.op \in EnumRequests
        /\ last.frame.schema.kind = "Enum"
        /\ \/ opts.enum_format = "Tuple" /\ last.frame.data = DSeq(<<>>)
           \/ /\ opts.enum_format = "Map"
              /\ last.frame.schema.repr.repr = "ExternallyTagged"
              /\ last.frame.data = DMap(<<>>)
        /\ result.st # "panic") =>
          /\ result = Custom("missing tag")
          /\ Len(out) = last.obefore
    /\ (/\ last.op = "next_value_seed"
        /\ last.frame.t \in {"TupleEnumAccess", "TupleStructAccess"}
        /\ last.frame.value # <<>>
        /\ last.frame.rest = <<>>) =>
          /\ result.st = "err"
          /\ Len(out) = last.obefore

(***************************************************************************)
(* Claims about widths, rejections and arities                             *)
(***************************************************************************)
NumericMethods == IntMethods \cup {"deserialize_f32", "deserialize_f64"}

\* C25: when an integer or float request is accepted through widening, the
\* engine asks the underlying decoder for the width the schema declares, not
\* the width requested, and for nothing else; a value encoded at the declared
\* width reaches the target as it is, the same for every accepted request.
C25_DeclaredWidthRead ==
    (last.op \in NumericMethods /\ Forwarded) =>
        LET P == last.frame.schema
        IN  /\ P.kind = "Simple"
            /\ ulog = <<UCall(RequestFor[P.simple], 0)>>
            /\ last.frame.data.k = P.simple =>
                  /\ result.st # "err"
                  /\ out = SubSeq(out, 1, last.obefore) \o <<EvVisit(last.frame.data)>>

C25_Witness ==
    /\ last.op = "deserialize_i64"
    /\ input = [schema |-> Simple("I8"), data |-> SampleOf("I8")]
    /\ ulog = <<UCall("deserialize_i8", 0)>>
    /\ out = <<EvVisit(SampleOf("I8"))>>
    /\ result.st = "ok"

\* The requests that match on the kind of the schema position and reject.
KindCheckedRequests ==
    Methods \ {"deserialize_any", "deserialize_option",
               "deserialize_newtype_struct", "deserialize_ignored_any"}

\* C26: a type-mismatch rejection consumes no input.  The step in which a
\* primitive, sequence, tuple, map, struct, enum, unit-struct, tuple-struct or
\* identifier request is rejected for the kind of the schema position sends
\* the underlying decoder no request: the count of requests it has received,
\* hence its read position, is the one before the step, at the root and inside
\* a cursor alike, and the target is handed nothing.
C26_RejectionReadsNothing ==
    [][(/\ result.st = "running"
        /\ TypeMismatch'
        /\ last'.op \in KindCheckedRequests)
       => /\ ulog' = <<>>
          /\ ureqs' = ureqs
          /\ out' = out]_vars

C26_Witness ==
    /\ TypeMismatch
    /\ last.op = "deserialize_bool"
    /\ last.depth = 2
    /\ last.frame.schema = Simple("U8")
    /\ input.schema.kind = "Seq"
    /\ ulog = <<>>
    /\ ureqs = 2
    /\ out = <<Ev("seq")>>

(***************************************************************************)
(* Claims about the names of a Description                                 *)
(***************************************************************************)
\* The Named references nested in the schema built for type s: the user types
\* it holds, directly or inside a container it holds inline.
NamedRefs(s) ==
    UNION {IF graph[s][i] \in NamedIds THEN {graph[s][i]} ELSE InlineNames(graph[s][i]) :
              i \in 1..Len(graph[s])}

\* The Named references of a SchemaItem.
ItemRefs(item) == IF item.item = "Named" THEN {item.name} ELSE NamedRefs(item.schema)

\* C27: Named references are closed over the registry.  In the Description
\* describe() returns, the root SchemaItem and every Named reference nested in
\* a registered schema name a key of the items, so lookup of such a reference
\* in a table with the keys of the items finds an entry.
C27_NamedReferencesClosed ==
    (rstate = "done" /\ apiAdds = 0) =>
        LET refs == ItemRefs(TheDescription.schema)
                       \cup UNION {NamedRefs(TheDescription.items[n]) :
                                      n \in DOMAIN TheDescription.items}
        IN  \A r \in refs :
              /\ r \in DOMAIN TheDescription.items
              /\ SchemaDecodeItem_lookup([item |-> "Named", name |-> r],
                                         TheDescription.items).st = "ok"

C27_Witness ==
    /\ rstate = "done"
    /\ apiAdds = 0
    /\ root = <<"V">>
    /\ graph["V"] = <<"S">>
    /\ graph["S"] = <<"T", "P">>
    /\ graph["T"] = <<>>
    /\ TheDescription.schema = [item |-> "Schema", schema |-> "V"]
    /\ DOMAIN items = {"S", "T"}

(***************************************************************************)
(* Claims about tuples and single-entry cursors                            *)
(***************************************************************************)
TupleRequests == {"deserialize_tuple", "deserialize_tuple_struct"}

\* C28: a tuple or tuple-struct request at a Tuple position is passed on with
\* the number of elements of the schema as its arity; the arity of the request
\* is ignored and a request of another arity is not rejected.  The tuple
\* cursor, once it has handed on one request per element of the schema,
\* reports the end of the tuple without a request to the underlying cursor,
\* whatever input remains.
C28_TupleArityFromSchema ==
    /\ (last.op \in TupleRequests /\ last.frame.schema.kind = "Tuple") =>
          /\ ~TypeMismatch
          /\ ulog # <<>>
          /\ ulog[1] = UCall(last.op, Len(last.frame.schema.values))
    /\ (last.op = "next_element_seed" /\ last.frame.t = "TupleSeqAccess"
            /\ last.frame.values = <<>>) =>
          /\ ulog = <<>>
          /\ result.st # "err"
          /\ out = SubSeq(out, 1, last.obefore) \o <<Ev("end")>>
    /\ (last.op = "next_element_seed" /\ last.frame.t = "TupleSeqAccess"
            /\ last.frame.values # <<>>) =>
          /\ ulog # <<>>
          /\ ulog[1] = UCall("next_element_seed", 0)
          /\ Len(stack) >= last.depth =>
                stack[last.depth].values = Tail(last.frame.values)

C28_Witness ==
    /\ last.op = "next_element_seed"
    /\ last.frame.t = "TupleSeqAccess"
    /\ last.frame.values = <<>>
    /\ last.frame.rest = <<DU64(1)>>
    /\ input.schema = TupleSchema(<<Simple("String"), Simple("U64")>>)
    /\ ulog = <<>>
    /\ Last(out) = Ev("end")

\* The step is a call of the given cursor method; last'.frame is the cursor
\* as it was called.
CursorCall(op) == last'.op = op /\ last'.calls = last.calls + 1

\* C29: the enum keyed cursors are single-entry.  Over any sequence of calls,
\* next_key_seed hands over the name of the selected variant on its first call
\* and the end of the map on every later one, without a request to the
\* underlying cursor; a value request reads one value from the underlying
\* cursor and no later one reads another.  The tuple-struct cursor hands over
\* the names of the declared fields one per call in the order of declaration,
\* then the end of the map, whatever input remains.
C29_SingleEntryCursors ==
    [][/\ \A i \in 1..Len(stack) :
            (/\ stack[i].t \in EnumCursors
             /\ Len(stack') >= i
             /\ stack'[i].t = stack[i].t) =>
                /\ Len(stack[i].tag) <= 1
                /\ stack[i].tag = <<>> => stack'[i].tag = <<>>
                /\ stack[i].value = <<>> => stack'[i].value = <<>>
       /\ (CursorCall("next_key_seed") /\ last'.frame.t \in EnumCursors) =>
            /\ ulog' = <<>>
            /\ result'.st = "running"
            /\ IF last'.frame.tag = <<>>
               THEN /\ out' = Append(out, Ev("end"))
                    /\ stack' = stack
               ELSE /\ out' = Append(out, EvKey(last'.frame.tag[1]))
                    /\ Last(stack') = [last'.frame EXCEPT !.tag = <<>>]
       /\ (CursorCall("next_value_seed") /\ last'.frame.t \in EnumCursors) =>
            IF last'.frame.value = <<>>
            THEN ulog' = <<>> /\ result' = InvalidUse
            ELSE /\ Len(ulog') = 1
                 /\ ulog'[1].call \in {"next_element_seed", "next_value_seed"}
                 /\ Len(stack') >= last'.depth => stack'[last'.depth].value = <<>>
       /\ (CursorCall("next_key_seed") /\ last'.frame.t = "TupleStructAccess") =>
            /\ ulog' = <<>>
            /\ result'.st = "running"
            /\ IF last'.frame.fields = <<>>
               THEN /\ out' = Append(out, Ev("end"))
                    /\ stack' = stack
               ELSE /\ out' = Append(out, EvKey(last'.frame.fields[1].name))
                    /\ Last(stack').fields = Tail(last'.frame.fields)
                    /\ Last(stack').rest = last'.frame.rest]_vars

C29_Witness ==
    /\ last.op = "next_key_seed"
    /\ last.frame.t \in EnumCursors
    /\ last.frame.tag = <<>>
    /\ last.calls >= 2
    /\ Last(out) = Ev("end")
    /\ \E i \in 1..Len(out) : out[i] \in {EvKey(n) : n \in {"A", "B", "C", "D"}}

(***************************************************************************)
(* Claims about transparent and derived requests                           *)
(***************************************************************************)
\* C30: transparent and derived requests keep the schema position.  A
\* newtype-struct request hands the target the same deserializer, at the same
\* position whatever its kind, and asks the underlying decoder nothing; an
\* ignored-any request does what the catch-all request does from the same
\* state; a unit-struct request is accepted iff the position is Simple Unit
\* and an identifier request iff it is Simple String, and an accepted one is
\* passed on under its own name.
C30_TransparentRequests ==
    /\ [](/\ last.op = "deserialize_newtype_struct" =>
                /\ result.st = "running"
                /\ ulog = <<>>
                /\ out = SubSeq(out, 1, last.obefore) \o <<Ev("newtype")>>
                /\ Len(stack) = last.depth
                /\ Last(stack) = last.frame
          /\ last.op = "deserialize_unit_struct" =>
                /\ TypeMismatch <=> ~IsSimple(last.frame.schema, "Unit")
                /\ Forwarded <=> IsSimple(last.frame.schema, "Unit")
                /\ Forwarded => ulog = <<UCall("deserialize_unit_struct", 0)>>
          /\ last.op = "deserialize_identifier" =>
                /\ TypeMismatch <=> ~IsSimple(last.frame.schema, "String")
                /\ Forwarded <=> IsSimple(last.frame.schema, "String")
                /\ Forwarded => ulog = <<UCall("deserialize_identifier", 0)>>)
    /\ [][last'.op = "deserialize_ignored_any" =>
            LET any == RequestEffect(Cur, "deserialize_any", 0, opts)
            IN  /\ stack' = any.stack
                /\ result' = any.result
                /\ ulog' = any.ulog
                /\ out' = any.out]_vars

C30_Witness ==
    /\ last.op = "deserialize_newtype_struct"
    /\ last.frame.schema = SeqSchema(Simple("U8"))
    /\ Last(stack) = last.frame
    /\ out = <<Ev("newtype")>>
    /\ ulog = <<>>

====
